---- MODULE Spec2Model ----
(***************************************************************************)
(* A model of the legacy BLAST database readers of src/app/blastdb:        *)
(*   legacy_header_reader.cpp  index parser (ParsePinFile), header slicer  *)
(*                             (ExtractHeaders), BER header-blob decoder   *)
(*                             (DecodeDeflineSet), driver (PrintSummary);  *)
(*   psq_reader.cpp            BinaryCursor, index parser (ParsePin),      *)
(*                             sequence decoder (DecodeSequence).          *)
(*                                                                         *)
(* Every C++ function is an operator of the same name that takes the       *)
(* function's arguments and returns a record holding what the call leaves  *)
(* behind: err (the empty string on a normal return, otherwise the kind of *)
(* the exception thrown), the new value of a by-reference cursor, and the  *)
(* returned value.  The programs are state machines whose actions are the  *)
(* calls main() makes.                                                     *)
(*                                                                         *)
(* Number representation.  A byte is an integer in 0..255.  A uint32_t is  *)
(* kept modulo 2^32 as the integer of the same residue in -2^31..2^31-1    *)
(* (so 0xFFFFFFFF is -1): the unsigned order puts the negative             *)
(* representatives above the non-negative ones.  A uint64_t is kept as its *)
(* eight base-256 digits, most significant first.                          *)
(***************************************************************************)
EXTENDS Integers, Sequences, FiniteSets, TLC

VARIABLES
    buffer,     \* cursor harness: the bytes the read primitives are applied to
    offset,     \* cursor harness: the std::size_t &offset of the legacy reader
    m_Pos,      \* cursor harness: BinaryCursor::m_Pos
    call,       \* cursor harness: the last primitive call and its outcome
    pin_data,   \* the index (.pin) file
    phr_data,   \* the header (.phr) file
    hdr_pc,     \* legacy_header_reader main(): position
    index,      \* legacy_header_reader main(): outcome of ParsePinFile
    headers,    \* legacy_header_reader main(): outcome of ExtractHeaders
    psq_pc,     \* psq_reader main(): position
    psq_index,  \* psq_reader main(): outcome of ParsePin
    heap,       \* the memory around the blob's buffer
    oid,        \* PrintSummary: the loop index i
    summary     \* PrintSummary: what was printed, one entry per header

vars == <<buffer, offset, m_Pos, call, pin_data, phr_data, hdr_pc, index,
          headers, psq_pc, psq_index, heap, oid, summary>>

-----------------------------------------------------------------------------
(* Bounds of the model.                                                    *)

\* longest byte string the cursor harness reads from
MaxBufLen == 8
\* largest num_oids / num_sequences the generated index files declare
MaxOids == 2
\* largest offset-table entry of the generated index files
MaxOffset == 2
\* longest header file
MaxPhrLen == 2
\* longest header blob taken from every byte string
MaxBlobLen == 8
\* most definition lines of a generated definition-line set
MaxLines == 2

\* longest sequence (.psq) file DecodeSequence is applied to
MaxSeqLen == 3

\* longest body of the generated integers
MaxIntLen == 2
\* longest byte string SkipElement is applied to, taken from every byte string
MaxSkipLen == 4
\* most children of a generated constructed string
MaxChunks == 4
\* most fields of a generated constructed seq-id
MaxFields == 3

-----------------------------------------------------------------------------
(* Byte strings.                                                           *)

\* buffer[i] of a std::vector<Byte>, C++ indices from 0
At(buf, i) == buf[i + 1]

\* the bytes of [from, from + n)
Slice(buf, from, n) == SubSeq(buf, from + 1, from + n)

\* all byte strings over alphabet of length at most n
RECURSIVE SeqsUpTo(_, _)
SeqsUpTo(alphabet, n) ==
    IF n = 0 THEN {<<>>}
    ELSE LET shorter == SeqsUpTo(alphabet, n - 1)
         IN  shorter \cup {Append(s, b) : s \in shorter, b \in alphabet}

\* all byte strings over alphabet of length exactly n
SeqsOfLen(alphabet, n) == {s \in SeqsUpTo(alphabet, n) : Len(s) = n}

-----------------------------------------------------------------------------
(* Fixed-width integers.                                                   *)

\* a byte as the top byte of a two's-complement word
Signed8(b) == IF b >= 128 THEN b - 256 ELSE b

\* (value << 8) | b over uint32_t
ShlOr32(value, b) ==
    LET low24 == value % 16777216
    IN  (IF low24 >= 8388608 THEN low24 - 16777216 ELSE low24) * 256 + b

\* (value << 8) | b over uint64_t
ShlOr64(value, b) == Tail(value) \o <<b>>

\* the uint64_t zero, and the uint64_t of a small number n < 256
U64Zero == <<0, 0, 0, 0, 0, 0, 0, 0>>
U64Of(n) == <<0, 0, 0, 0, 0, 0, 0, n>>

\* offset + length > size, for a std::size_t offset <= size and a uint32_t (or
\* std::size_t below 2^32) length: a length of 2^31 or more overruns every
\* buffer of the model
Overruns(off, length, size) == length < 0 \/ length > size - off

\* static_cast<std::size_t>(n) > i for a uint32_t n and a small index i
U32Above(n, i) == n < 0 \/ n > i

-----------------------------------------------------------------------------
(* legacy_header_reader.cpp: the cursor primitives of the index parser.    *)

\* the loop of ReadBE32: value = (value << 8) | buffer[offset + i], i = 0..3
RECURSIVE BE32Loop(_, _, _, _)
BE32Loop(buf, off, i, value) ==
    IF i >= 4 THEN value
    ELSE BE32Loop(buf, off, i + 1, ShlOr32(value, At(buf, off + i)))

ReadBE32(buf, off) ==
    IF off + 4 > Len(buf)
    THEN [err |-> "Truncated", value |-> 0, offset |-> off]
    ELSE [err |-> "", value |-> BE32Loop(buf, off, 0, 0), offset |-> off + 4]

\* the loop of ReadLE64: value = (value << 8) | buffer[offset + i], i = 7..0
RECURSIVE LE64Loop(_, _, _, _)
LE64Loop(buf, off, i, value) ==
    IF i < 0 THEN value
    ELSE LE64Loop(buf, off, i - 1, ShlOr64(value, At(buf, off + i)))

ReadLE64(buf, off) ==
    IF off + 8 > Len(buf)
    THEN [err |-> "Truncated", value |-> U64Zero, offset |-> off]
    ELSE [err |-> "", value |-> LE64Loop(buf, off, 7, U64Zero), offset |-> off + 8]

ReadPascalString(buf, off) ==
    LET length == ReadBE32(buf, off)
    IN  IF length.err # ""
        THEN [err |-> length.err, value |-> <<>>, offset |-> length.offset]
        ELSE IF Overruns(length.offset, length.value, Len(buf))
        THEN [err |-> "Truncated", value |-> <<>>, offset |-> length.offset]
        ELSE [err |-> "",
              value |-> Slice(buf, length.offset, length.value),
              offset |-> length.offset + length.value]

-----------------------------------------------------------------------------
(* psq_reader.cpp: BinaryCursor.  The cursor is the pair (m_Data, m_Pos);  *)
(* each method returns the new m_Pos in the field m_Pos.                   *)

\* m_Pos + bytes > m_Data.size()
EnsureAvailable(m_Data, pos, bytes) == Overruns(pos, bytes, Len(m_Data))

ReadUInt32(m_Data, pos) ==
    IF EnsureAvailable(m_Data, pos, 4)
    THEN [err |-> "Truncated", value |-> 0, m_Pos |-> pos]
    ELSE [err |-> "",
          value |-> Signed8(At(m_Data, pos)) * 16777216
                    + At(m_Data, pos + 1) * 65536
                    + At(m_Data, pos + 2) * 256
                    + At(m_Data, pos + 3),
          m_Pos |-> pos + 4]

\* the loop of ReadUInt64: value = (value << 8) | m_Data[m_Pos + i], i = 0..7
RECURSIVE UInt64Loop(_, _, _, _)
UInt64Loop(m_Data, pos, i, value) ==
    IF i >= 8 THEN value
    ELSE UInt64Loop(m_Data, pos, i + 1, ShlOr64(value, At(m_Data, pos + i)))

ReadUInt64(m_Data, pos) ==
    IF EnsureAvailable(m_Data, pos, 8)
    THEN [err |-> "Truncated", value |-> U64Zero, m_Pos |-> pos]
    ELSE [err |-> "", value |-> UInt64Loop(m_Data, pos, 0, U64Zero), m_Pos |-> pos + 8]

ReadString(m_Data, pos) ==
    LET length == ReadUInt32(m_Data, pos)
    IN  IF length.err # ""
        THEN [err |-> length.err, value |-> <<>>, m_Pos |-> length.m_Pos]
        ELSE IF EnsureAvailable(m_Data, length.m_Pos, length.value)
        THEN [err |-> "Truncated", value |-> <<>>, m_Pos |-> length.m_Pos]
        ELSE [err |-> "",
              value |-> Slice(m_Data, length.m_Pos, length.value),
              m_Pos |-> length.m_Pos + length.value]

-----------------------------------------------------------------------------
(* legacy_header_reader.cpp: ParsePinFile and ExtractHeaders.              *)

\* what a throwing index parser leaves its caller: no PinIndex
NoIndex == [none |-> TRUE]

\* a step the parser does not take (a version-5-only field of a version-4 file)
Skipped(off, value) == [err |-> "", value |-> value, offset |-> off]

\* BelowCount with count = num_oids: the table one entry short
BelowCountShort(i, num_oids) == num_oids < 0 \/ i < num_oids

\* i < count, for count = static_cast<std::size_t>(num_oids) + 1
BelowCount(i, num_oids) == num_oids < 0 \/ i <= num_oids

\* the lambda read_offset_array: target[i] = ReadBE32(data, offset), i < count
RECURSIVE read_offset_array(_, _, _, _, _)
read_offset_array(data, off, num_oids, i, target) ==
    IF ~BelowCount(i, num_oids)
    THEN [err |-> "", value |-> target, offset |-> off]
    ELSE LET entry == ReadBE32(data, off)
         IN  IF entry.err # ""
             THEN [err |-> entry.err, value |-> <<>>, offset |-> entry.offset]
             ELSE read_offset_array(data, entry.offset, num_oids, i + 1,
                                    Append(target, entry.value))

ParsePinFileThrow(kind) == [err |-> kind, index |-> NoIndex, trailing |-> FALSE]

ParsePinFile(data) ==
    LET version == ReadBE32(data, 0)
        seq_type_flag == ReadBE32(data, version.offset)
        is_protein == seq_type_flag.value = 1
        volume_number ==
            IF version.value = 5 THEN ReadBE32(data, seq_type_flag.offset)
            ELSE Skipped(seq_type_flag.offset, 0)
        title == ReadPascalString(data, volume_number.offset)
        lmdb_file ==
            IF version.value = 5 THEN ReadPascalString(data, title.offset)
            ELSE Skipped(title.offset, <<>>)
        date == ReadPascalString(data, lmdb_file.offset)
        num_oids == ReadBE32(data, date.offset)
        total_length == ReadLE64(data, num_oids.offset)
        max_length == ReadBE32(data, total_length.offset)
        header_offsets ==
            read_offset_array(data, max_length.offset, num_oids.value, 0, <<>>)
        sequence_offsets ==
            read_offset_array(data, header_offsets.offset, num_oids.value, 0, <<>>)
        ambiguity_offsets ==
            IF ~is_protein
            THEN read_offset_array(data, sequence_offsets.offset, num_oids.value, 0, <<>>)
            ELSE Skipped(sequence_offsets.offset, <<>>)
    IN  IF version.err # "" THEN ParsePinFileThrow(version.err)
        ELSE IF version.value # 4 /\ version.value # 5
        THEN ParsePinFileThrow("UnsupportedVersion")
        ELSE IF seq_type_flag.err # "" THEN ParsePinFileThrow(seq_type_flag.err)
        ELSE IF volume_number.err # "" THEN ParsePinFileThrow(volume_number.err)
        ELSE IF title.err # "" THEN ParsePinFileThrow(title.err)
        ELSE IF lmdb_file.err # "" THEN ParsePinFileThrow(lmdb_file.err)
        ELSE IF date.err # "" THEN ParsePinFileThrow(date.err)
        ELSE IF num_oids.err # "" THEN ParsePinFileThrow(num_oids.err)
        ELSE IF total_length.err # "" THEN ParsePinFileThrow(total_length.err)
        ELSE IF max_length.err # "" THEN ParsePinFileThrow(max_length.err)
        ELSE IF header_offsets.err # "" THEN ParsePinFileThrow(header_offsets.err)
        ELSE IF sequence_offsets.err # "" THEN ParsePinFileThrow(sequence_offsets.err)
        ELSE IF ambiguity_offsets.err # "" THEN ParsePinFileThrow(ambiguity_offsets.err)
        ELSE [err |-> "",
              index |-> [version |-> version.value,
                         is_protein |-> is_protein,
                         volume_number |-> volume_number.value,
                         title |-> title.value,
                         lmdb_file |-> lmdb_file.value,
                         date |-> date.value,
                         num_oids |-> num_oids.value,
                         total_length |-> total_length.value,
                         max_length |-> max_length.value,
                         header_offsets |-> header_offsets.value,
                         sequence_offsets |-> sequence_offsets.value,
                         ambiguity_offsets |-> ambiguity_offsets.value],
              \* offset != data.size(): the warning on std::cerr
              trailing |-> ambiguity_offsets.offset # Len(data)]

\* a < b over uint32_t
U32Less(a, b) == IF (a < 0) = (b < 0) THEN a < b ELSE b < 0

\* HeaderRangeInvalid without the test for an inverted range
HeaderRangeInvalidNoInverted(start, end, size) == end < 0 \/ end > size

\* end < start || end > data.size(), for uint32_t start and end
HeaderRangeInvalid(start, end, size) ==
    U32Less(end, start) \/ end < 0 \/ end > size

\* the loop of ExtractHeaders: one header per OID, in OID order.  The field
\* reads holds the indices of the header-file bytes copied so far.
RECURSIVE ExtractHeadersLoop(_, _, _, _, _)
ExtractHeadersLoop(idx, data, i, hdrs, reads) ==
    IF ~U32Above(idx.num_oids, i)
    THEN [err |-> "", value |-> hdrs, reads |-> reads]
    ELSE IF i + 2 > Len(idx.header_offsets)
    THEN [err |-> "OutOfRange", value |-> <<>>, reads |-> reads]
    ELSE LET start == idx.header_offsets[i + 1]
             end == idx.header_offsets[i + 2]
         IN  IF HeaderRangeInvalid(start, end, Len(data))
             THEN [err |-> "CorruptIndex", value |-> <<>>, reads |-> reads]
             ELSE ExtractHeadersLoop(idx, data, i + 1,
                                     Append(hdrs, Slice(data, start, end - start)),
                                     reads \cup {k \in 0..(end - 1) : k >= start})

ExtractHeaders(idx, data) == ExtractHeadersLoop(idx, data, 0, <<>>, {})

-----------------------------------------------------------------------------
(* psq_reader.cpp: ParsePin.                                               *)

ParsePinThrow(kind) == [err |-> kind, index |-> NoIndex]

\* index.num_sequences + 1 over uint32_t
U32Inc(n) == IF n = 2147483647 THEN -2147483647 - 1 ELSE n + 1

\* the loop of ParsePin: i <= num_sequences over uint32_t, reading the word at
\* sequence_offsets + i * 4.  A word that is not wholly inside the file is a
\* read outside m_Data (undefined behaviour): the result records it in oob.
RECURSIVE ParsePinLoop(_, _, _, _, _)
ParsePinLoop(m_Data, base, num_sequences, i, table) ==
    IF ~BelowCount(i, num_sequences)
    THEN [value |-> table, oob |-> FALSE]
    ELSE LET pos == base + i * 4
         IN  IF pos + 3 >= Len(m_Data)
             THEN [value |-> table, oob |-> TRUE]
             ELSE ParsePinLoop(m_Data, base, num_sequences, i + 1,
                               Append(table, ReadUInt32(m_Data, pos).value))

ParsePin(file) ==
    LET version == ReadUInt32(file, 0)
        sequence_type == ReadUInt32(file, version.m_Pos)
        volume_number ==
            IF version.value = 5 THEN ReadUInt32(file, sequence_type.m_Pos)
            ELSE [err |-> "", value |-> 0, m_Pos |-> sequence_type.m_Pos]
        title == ReadString(file, volume_number.m_Pos)
        lmdb_name ==
            IF version.value = 5 THEN ReadString(file, title.m_Pos)
            ELSE [err |-> "", value |-> <<>>, m_Pos |-> title.m_Pos]
        creation_date == ReadString(file, lmdb_name.m_Pos)
        num_sequences == ReadUInt32(file, creation_date.m_Pos)
        total_residues == ReadUInt64(file, num_sequences.m_Pos)
        max_length == ReadUInt32(file, total_residues.m_Pos)
        \* region_bytes / 4 = static_cast<size_t>(num_sequences + 1)
        region_words == U32Inc(num_sequences.value)
        header_offsets == max_length.m_Pos
        \* sequence_offsets + region_bytes > size, region_bytes = region_words * 4
        incomplete ==
            \/ region_words < 0
            \/ region_words > (Len(file) - header_offsets) \div 8
        sequence_offsets == header_offsets + region_words * 4
        table == ParsePinLoop(file, sequence_offsets, num_sequences.value, 0, <<>>)
    IN  IF Len(file) = 0 THEN ParsePinThrow("EmptyFile")
        ELSE IF version.err # "" THEN ParsePinThrow(version.err)
        ELSE IF sequence_type.err # "" THEN ParsePinThrow(sequence_type.err)
        ELSE IF version.value # 4 /\ version.value # 5
        THEN ParsePinThrow("UnsupportedVersion")
        ELSE IF volume_number.err # "" THEN ParsePinThrow(volume_number.err)
        ELSE IF title.err # "" THEN ParsePinThrow(title.err)
        ELSE IF lmdb_name.err # "" THEN ParsePinThrow(lmdb_name.err)
        ELSE IF creation_date.err # "" THEN ParsePinThrow(creation_date.err)
        ELSE IF num_sequences.err # "" THEN ParsePinThrow(num_sequences.err)
        ELSE IF total_residues.err # "" THEN ParsePinThrow(total_residues.err)
        ELSE IF max_length.err # "" THEN ParsePinThrow(max_length.err)
        ELSE IF incomplete THEN ParsePinThrow("IncompleteTables")
        ELSE IF table.oob
        THEN [err |-> "UndefinedBehaviour", index |-> NoIndex]
        ELSE IF Len(table.value) < 2
                \/ ~U32Less(table.value[1], table.value[Len(table.value)])
        THEN ParsePinThrow("CorruptIndex")
        ELSE IF sequence_type.value # 1 THEN ParsePinThrow("UnsupportedDatabase")
        ELSE [err |-> "",
              index |-> [version |-> version.value,
                         sequence_type |-> sequence_type.value,
                         volume_number |-> volume_number.value,
                         title |-> title.value,
                         lmdb_name |-> lmdb_name.value,
                         creation_date |-> creation_date.value,
                         num_sequences |-> num_sequences.value,
                         total_residues |-> total_residues.value,
                         max_length |-> max_length.value,
                         sequence_offsets |-> table.value]]

-----------------------------------------------------------------------------
(* psq_reader.cpp: DecodeSequence.  A char is kept as its code.            *)

\* '*', 'A', 'B', ... 'J', '-'
kNcbistdaaToAscii ==
    <<42, 65, 66, 67, 68, 69, 70, 71, 72, 73, 75, 76, 77,
      78, 80, 81, 82, 83, 84, 86, 87, 89, 88, 90, 85, 79, 74, 45>>

\* as DecodeResidue, without the test of code == 0
DecodeResidueNoTerminator(code) ==
    IF code < Len(kNcbistdaaToAscii) THEN kNcbistdaaToAscii[code + 1]
    ELSE 63

DecodeResidue(code) ==
    IF code = 0 THEN 0
    ELSE IF code < Len(kNcbistdaaToAscii) THEN kNcbistdaaToAscii[code + 1]
    ELSE 63

\* the loop of DecodeSequence over pos = start .. end - 1
RECURSIVE DecodeSequenceLoop(_, _, _, _)
DecodeSequenceLoop(data, pos, end, decoded) ==
    IF ~(pos < end) THEN decoded
    ELSE IF DecodeResidue(At(data, pos)) = 0 THEN decoded
    ELSE DecodeSequenceLoop(data, pos + 1, end,
                            Append(decoded, DecodeResidue(At(data, pos))))

\* start and end are uint32_t
DecodeSequence(data, start, end) ==
    IF U32Less(end, start) \/ U32Above(end, Len(data))
    THEN [err |-> "Sequence offsets exceed PSQ file length", value |-> <<>>]
    ELSE [err |-> "", value |-> DecodeSequenceLoop(data, start, end, <<>>)]

-----------------------------------------------------------------------------
(* legacy_header_reader.cpp: the BER primitives of the header-blob         *)
(* decoder.                                                                *)
(*                                                                         *)
(* A std::size_t is kept modulo 2^64 as the integer of the same residue    *)
(* nearest to zero, so that sums wrap as they do in the code: 2^64 - 1 is  *)
(* -1, and the unsigned order puts the negative representatives above the  *)
(* non-negative ones; the lengths a blob can declare that are 2^30 or more *)
(* away from zero are left out (Unmodelled).  An int64_t is kept as the    *)
(* eight base-256 digits of its two's complement.  An optional is the      *)
(* empty sequence or a sequence of one element.                            *)
(*                                                                         *)
(* The field err of a result is the empty string on a normal return, the   *)
(* message of the exception thrown, or one of the two ways in which a call *)
(* does not come back at all: Hang and Crash.                              *)

\* enum class BerClass
Universal == 0
Application == 1
ContextSpecific == 2
Private == 3

\* a < b over std::size_t
SzLess(a, b) == IF (a < 0) = (b < 0) THEN a < b ELSE b < 0

\* the call never returns: a loop that has come back to a state it was in,
\* which runs for ever or until its growing result exhausts the memory
Hang == "never returns"
\* the process is killed: the stack is exhausted by a recursion that has come
\* back to its own arguments
Crash == "killed"
\* the process is killed: a read outside the buffer reaches memory that is
\* not mapped
OutOfBounds == "killed by a read outside the buffer"
\* std::length_error, thrown by std::string(const char*, n) for n > max_size()
LengthError == "std::length_error"
\* a value the number representation above does not hold
Unmodelled == "outside the model"

\* the messages of PinParseError thrown by the decoder
PinParseErrors ==
    {"Unexpected end of buffer while reading BER tag",
     "Unexpected end of buffer while reading BER length",
     "Unsupported BER length size",
     "Unexpected end of buffer while reading BER length body",
     "Indefinite length used with primitive element",
     "BER element exceeds buffer size",
     "Invalid integer length",
     "String overruns buffer",
     "Expected string type inside explicit tag",
     "Primitive string used with indefinite length",
     "Failed to advance while scanning for string element",
     "Seq-id uses unexpected tag class",
     "Indefinite length inside PDB-seq-id",
     "Unexpected indefinite length for primitive Seq-id",
     "Expected SEQUENCE for Seq-id list",
     "Expected INTEGER inside explicit wrapper",
     "Expected Blast-def-line-set sequence"}

\* what catch (const PinParseError &) and catch (const std::exception &) catch
IsPinParseError(err) == err \in PinParseErrors
IsStdException(err) == err \in PinParseErrors \cup {LengthError}

\* a normal return, and a throw (or Hang, or Crash) with the cursor at off
Ok(off, v) == [err |-> "", offset |-> off, value |-> v]
Throw(what, off) == [err |-> what, offset |-> off, value |-> <<>>]

\* std::nullopt and an engaged optional
None == <<>>
Some(v) == <<v>>

\* a local constant: The({e : x \in {v}}) is e with x standing for v, as in
\* const T x = v; followed by e
The(S) == CHOOSE e \in S : TRUE

\* buffer[i] where i may lie outside the buffer.  The read is undefined
\* there; what it does is decided by the memory around the buffer, which is
\* any of HeapImages: below the buffer the allocator's own bytes, all
\* heap.before; above it the readable bytes heap.after, and behind them
\* memory that is not mapped, where a read kills the process.
Mapped(buf, i) == i < Len(buf) + Len(heap.after)
ByteAt(buf, i) ==
    IF i < 0 THEN heap.before
    ELSE IF i < Len(buf) THEN buf[i + 1]
    ELSE heap.after[i - Len(buf) + 1]

\* (number << 7) | bits over uint32_t
ShlOr7(number, bits) ==
    LET low25 == number % 33554432
    IN  (IF low25 >= 16777216 THEN low25 - 33554432 ELSE low25) * 128 + bits

\* the long-form tag number: while (offset < buffer.size())
RECURSIVE ReadTagLong(_, _, _)
ReadTagLong(buf, off, number) ==
    IF ~SzLess(off, Len(buf)) THEN [offset |-> off, number |-> number]
    ELSE LET b == At(buf, off)
             shifted == ShlOr7(number, b % 128)
         IN  IF b < 128 THEN [offset |-> off + 1, number |-> shifted]
             ELSE ReadTagLong(buf, off + 1, shifted)

ReadTag(buf, off) ==
    IF ~SzLess(off, Len(buf))
    THEN Throw("Unexpected end of buffer while reading BER tag", off)
    ELSE LET first == At(buf, off)
             cls == first \div 64
             constructed == (first \div 32) % 2 = 1
             number == first % 32
             long == ReadTagLong(buf, off + 1, 0)
         IN  IF number = 31
             THEN Ok(long.offset, [cls |-> cls, constructed |-> constructed,
                                   number |-> long.number])
             ELSE Ok(off + 1, [cls |-> cls, constructed |-> constructed,
                               number |-> number])

\* the integer of a 64-bit value given by its digits, for the values whose
\* distance from zero is below 2^30
Near(digits) ==
    \/ (\A k \in 1..4 : digits[k] = 0) /\ digits[5] < 64
    \/ (\A k \in 1..4 : digits[k] = 255) /\ digits[5] >= 192
NearValue(digits) ==
    (IF digits[1] = 0 THEN digits[5] ELSE digits[5] - 256) * 16777216
    + digits[6] * 65536 + digits[7] * 256 + digits[8]

\* the long-form length: length = (length << 8) | buffer[offset++], with
\* remaining = num_bytes - i
RECURSIVE ReadLengthBody(_, _, _, _)
ReadLengthBody(buf, off, remaining, length) ==
    IF remaining = 0 THEN Ok(off, length)
    ELSE IF ~SzLess(off, Len(buf))
    THEN Throw("Unexpected end of buffer while reading BER length body", off)
    ELSE ReadLengthBody(buf, off + 1, remaining - 1,
                        ShlOr64(length, At(buf, off)))

ReadLength(buf, off) ==
    IF ~SzLess(off, Len(buf))
    THEN Throw("Unexpected end of buffer while reading BER length", off)
    ELSE LET first == At(buf, off)
             num_bytes == first % 128
             body == ReadLengthBody(buf, off + 1, num_bytes, U64Zero)
         IN  IF first = 128
             THEN Ok(off + 1, [indefinite |-> TRUE, length |-> 0])
             ELSE IF first < 128
             THEN Ok(off + 1, [indefinite |-> FALSE, length |-> first])
             ELSE IF num_bytes = 0 \/ num_bytes > 8
             THEN Throw("Unsupported BER length size", off + 1)
             ELSE IF body.err # "" THEN body
             ELSE IF ~Near(body.value) THEN Throw(Unmodelled, body.offset)
             ELSE Ok(body.offset, [indefinite |-> FALSE,
                                   length |-> NearValue(body.value)])

IsEoc(buf, off) ==
    /\ SzLess(off + 1, Len(buf))
    /\ ByteAt(buf, off) = 0
    /\ ByteAt(buf, off + 1) = 0

\* SkipElement, with the offsets at which the calls this one is nested in
\* were made (active) and, in the loop of an indefinite element, the offsets
\* at which the loop has stood (seen).  A definite length near 2^64 passes the
\* size test by wrapping and moves the cursor backwards, so that the loop can
\* return to an offset and a nested call to the offset of an enclosing one.
RECURSIVE SkipElementIn(_, _, _)
RECURSIVE SkipElementLoop(_, _, _, _)
SkipElementLoop(buf, off, active, seen) ==
    IF IsEoc(buf, off) THEN Ok(off + 2, <<>>)
    ELSE IF off \in seen THEN Throw(Hang, off)
    ELSE The({IF inner.err # "" THEN inner
              ELSE SkipElementLoop(buf, inner.offset, active, seen \cup {off})
              : inner \in {SkipElementIn(buf, off, active)}})

SkipElementIn(buf, off, active) ==
    IF off \in active THEN Throw(Crash, off)
    ELSE The({
        IF tag.err # "" THEN tag
        ELSE The({
            IF len.err # "" THEN len
            ELSE IF len.value.indefinite
            THEN IF ~tag.value.constructed
                 THEN Throw("Indefinite length used with primitive element",
                            len.offset)
                 ELSE SkipElementLoop(buf, len.offset, active \cup {off}, {})
            ELSE IF SzLess(Len(buf), len.offset + len.value.length)
            THEN Throw("BER element exceeds buffer size", len.offset)
            ELSE Ok(len.offset + len.value.length, <<>>)
            : len \in {ReadLength(buf, tag.offset)}})
        : tag \in {ReadTag(buf, off)}})

SkipElement(buf, off) == SkipElementIn(buf, off, {})

\* the int64_t 0 and -1, and (value << 8) | b over int64_t
I64Fill(b) == [k \in 1..8 |-> b]
RECURSIVE ParseIntegerLoop(_, _, _, _, _)
ParseIntegerLoop(buf, off, length, i, value) ==
    IF i >= length THEN value
    ELSE ParseIntegerLoop(buf, off, length, i + 1,
                          ShlOr64(value, ByteAt(buf, off + i)))

\* as ParseInteger, without the sign extension
ParseIntegerUnsigned(buf, off, length) ==
    IF length = 0 \/ SzLess(Len(buf), off + length)
    THEN Throw("Invalid integer length", off)
    ELSE IF length < 0 THEN Throw(OutOfBounds, off)
    ELSE Ok(off + length,
            ParseIntegerLoop(buf, off, length, 0, I64Fill(0)))

ParseInteger(buf, off, length) ==
    IF length = 0 \/ SzLess(Len(buf), off + length)
    THEN Throw("Invalid integer length", off)
    ELSE IF length < 0 THEN Throw(OutOfBounds, off)
    ELSE Ok(off + length,
            ParseIntegerLoop(buf, off, length, 0,
                I64Fill(IF ByteAt(buf, off) >= 128 THEN 255 ELSE 0)))

ParseString(buf, off, length) ==
    IF SzLess(Len(buf), off + length)
    THEN Throw("String overruns buffer", off)
    ELSE IF length < 0 THEN Throw(LengthError, off)
    ELSE Ok(off + length, [k \in 1..length |-> ByteAt(buf, off + k - 1)])

-----------------------------------------------------------------------------
(* legacy_header_reader.cpp: strings inside explicit wrappers.             *)

\* the universal string types
VisibleLikeNumbers == {12, 18, 19, 20, 21, 22, 25, 26, 27, 28, 29, 30}

IsVisibleLikeTag(tag) ==
    tag.cls = Universal /\ tag.number \in VisibleLikeNumbers

\* the loop of ParseVisible over the chunks of a constructed string; seen
\* holds the offsets at which the loop has stood
RECURSIVE ParseVisibleLoop(_, _, _, _, _, _)
ParseVisibleLoop(buf, off, inner_indef, inner_end, combined, seen) ==
    LET Again(o, next_combined) ==
            ParseVisibleLoop(buf, o, inner_indef, inner_end, next_combined,
                             seen \cup {off})
        OnChunk(chunk) ==
            IF chunk.err # "" THEN chunk
            ELSE Again(chunk.offset, combined \o chunk.value)
        Stepped(skipped) ==
            IF skipped.err # "" THEN skipped
            ELSE Again(skipped.offset, combined)
    IN  IF inner_indef /\ IsEoc(buf, off) THEN Ok(off + 2, combined)
        ELSE IF ~inner_indef /\ ~SzLess(off, inner_end) THEN Ok(off, combined)
        ELSE IF off \in seen THEN Throw(Hang, off)
        ELSE The({
            IF chunk_tag.err # "" THEN chunk_tag
            ELSE The({
                IF chunk_len.err # "" THEN chunk_len
                ELSE IF /\ IsVisibleLikeTag(chunk_tag.value)
                        /\ ~chunk_tag.value.constructed
                        /\ ~chunk_len.value.indefinite
                THEN OnChunk(ParseString(buf, chunk_len.offset,
                                         chunk_len.value.length))
                ELSE Stepped(SkipElement(buf, chunk_len.offset))
                : chunk_len \in {ReadLength(buf, chunk_tag.offset)}})
            : chunk_tag \in {ReadTag(buf, off)}})

ParseVisible(buf, off) ==
    LET Looped(loop, inner_indef, inner_end) ==
            IF loop.err # "" THEN loop
            ELSE IF ~inner_indef /\ SzLess(loop.offset, inner_end)
            THEN Ok(inner_end, loop.value)
            ELSE loop
    IN  The({
            IF inner_tag.err # "" THEN inner_tag
            ELSE The({
                LET inner_indef == inner_len.value.indefinite
                    inner_end == IF inner_indef THEN Len(buf)
                                 ELSE inner_len.offset + inner_len.value.length
                IN  IF inner_len.err # "" THEN inner_len
                    ELSE IF ~IsVisibleLikeTag(inner_tag.value)
                    THEN Throw("Expected string type inside explicit tag",
                               inner_len.offset)
                    ELSE IF ~inner_tag.value.constructed
                    THEN IF inner_indef
                         THEN Throw(
                                "Primitive string used with indefinite length",
                                inner_len.offset)
                         ELSE ParseString(buf, inner_len.offset,
                                          inner_len.value.length)
                    ELSE Looped(ParseVisibleLoop(buf, inner_len.offset,
                                                 inner_indef, inner_end,
                                                 <<>>, {}),
                                inner_indef, inner_end)
                : inner_len \in {ReadLength(buf, inner_tag.offset)}})
            : inner_tag \in {ReadTag(buf, off)}})

\* ExtractVisibleLike returns an optional string.  The cursor never moves
\* backwards in it: a nested call is made behind the header just read, and an
\* iteration that does not end beyond element_start throws.
RECURSIVE ExtractVisibleLike(_, _, _)
RECURSIVE ExtractVisibleLikeInner(_, _, _)

\* the while (true) of an indefinite element that is not a string: it ends
\* on an end-of-contents marker or on a string found; a nested call that
\* finds nothing and leaves the cursor where it was is repeated for ever
ExtractVisibleLikeInner(buf, off, limit) ==
    IF IsEoc(buf, off) THEN Ok(off + 2, None)
    ELSE The({IF inner.err # "" \/ inner.value # None THEN inner
              ELSE IF inner.offset = off THEN Throw(Hang, off)
              ELSE ExtractVisibleLikeInner(buf, inner.offset, limit)
              : inner \in {ExtractVisibleLike(buf, off, limit)}})

ExtractVisibleLike(buf, off, limit) ==
    LET element_start == off
        \* the end of an iteration: the progress test, then the loop again
        Again(o) ==
            IF ~SzLess(element_start, o)
            THEN Throw("Failed to advance while scanning for string element", o)
            ELSE ExtractVisibleLike(buf, o, limit)
        OnNested(nested, indef, end) ==
            IF nested.err # "" \/ nested.value # None THEN nested
            ELSE IF ~indef /\ SzLess(nested.offset, end) THEN Again(end)
            ELSE Again(nested.offset)
        OnString(str) ==
            IF str.err # "" THEN str ELSE Ok(str.offset, Some(str.value))
        OnInner(inner) ==
            IF inner.err # "" \/ inner.value # None THEN inner
            ELSE Again(inner.offset)
    IN  IF ~SzLess(off, limit) THEN Ok(off, None)
        ELSE IF IsEoc(buf, off) THEN Ok(off + 2, None)
        ELSE The({
            IF tag.err # "" THEN tag
            ELSE The({
                LET indef == len.value.indefinite
                    end == IF indef THEN limit
                           ELSE len.offset + len.value.length
                IN  IF len.err # "" THEN len
                    ELSE IF IsVisibleLikeTag(tag.value)
                    THEN IF tag.value.constructed
                         THEN OnNested(ExtractVisibleLike(buf, len.offset, end),
                                       indef, end)
                         ELSE IF indef
                         THEN Throw(
                                "Primitive string used with indefinite length",
                                len.offset)
                         ELSE OnString(ParseString(buf, len.offset,
                                                   len.value.length))
                    ELSE IF indef
                    THEN IF ~tag.value.constructed
                         THEN Throw(
                                "Indefinite length used with primitive element",
                                len.offset)
                         ELSE OnInner(ExtractVisibleLikeInner(buf, len.offset,
                                                              limit))
                    ELSE IF SzLess(Len(buf), len.offset + len.value.length)
                    THEN Throw("BER element exceeds buffer size", len.offset)
                    ELSE Again(len.offset + len.value.length)
                : len \in {ReadLength(buf, tag.offset)}})
            : tag \in {ReadTag(buf, off)}})

\* while (!IsEoc(buffer, offset)) SkipElement(buffer, offset), bounded by
\* offset < end where bounded; seen as in ParseVisibleLoop
RECURSIVE SkipToEoc(_, _, _, _, _)
SkipToEoc(buf, off, bounded, end, seen) ==
    LET Stepped(skipped) ==
            IF skipped.err # "" THEN skipped
            ELSE SkipToEoc(buf, skipped.offset, bounded, end, seen \cup {off})
    IN  IF (bounded /\ ~SzLess(off, end)) \/ IsEoc(buf, off) THEN Ok(off, <<>>)
        ELSE IF off \in seen THEN Throw(Hang, off)
        ELSE Stepped(SkipElement(buf, off))

ParseExplicitInteger(buf, off, len) ==
    LET start == off
        end == start + len.length
        AtEoc(rest, value) ==
            IF rest.err # "" THEN rest
            ELSE Ok(rest.offset + 2, value.value)
    IN  The({
            IF inner_tag.err # "" THEN inner_tag
            ELSE The({
                IF inner_len.err # "" THEN inner_len
                ELSE IF \/ inner_tag.value.cls # Universal
                        \/ inner_tag.value.number # 2
                        \/ inner_len.value.indefinite
                THEN Throw("Expected INTEGER inside explicit wrapper",
                           inner_len.offset)
                ELSE The({
                    IF value.err # "" THEN value
                    ELSE IF len.indefinite
                    THEN AtEoc(SkipToEoc(buf, value.offset, FALSE, 0, {}),
                               value)
                    ELSE IF SzLess(value.offset, end) THEN Ok(end, value.value)
                    ELSE value
                    : value \in {ParseInteger(buf, inner_len.offset,
                                              inner_len.value.length)}})
                : inner_len \in {ReadLength(buf, inner_tag.offset)}})
            : inner_tag \in {ReadTag(buf, off)}})

ParseExplicitVisible(buf, off, len) ==
    LET start == off
        end == IF len.indefinite THEN Len(buf) ELSE start + len.length
        AtEoc(rest, result) ==
            IF rest.err # "" THEN rest
            ELSE IF IsEoc(buf, rest.offset)
            THEN Ok(rest.offset + 2, result.value)
            ELSE Ok(rest.offset, result.value)
        \* the catch (const PinParseError &) block
        Recovered(recovered) ==
            IF recovered.err # "" THEN recovered
            ELSE IF recovered.value = None THEN Ok(recovered.offset, <<>>)
            ELSE Ok(recovered.offset, recovered.value[1])
        \* the try block
        Tried(first, recovered) ==
            IF ~IsPinParseError(first.err) THEN first
            ELSE Recovered(recovered)
    IN  The({
            IF result.err # "" THEN result
            ELSE IF len.indefinite
            THEN AtEoc(SkipToEoc(buf, result.offset, TRUE, end, {}), result)
            ELSE IF SzLess(result.offset, end) THEN Ok(end, result.value)
            ELSE result
            : result \in {Tried(ParseVisible(buf, off),
                                ExtractVisibleLike(buf, start, end))}})

-----------------------------------------------------------------------------
(* legacy_header_reader.cpp: sequence identifiers.                         *)

\* std::to_string of a uint32_t: a negative representative num stands for
\* num + 2^32 = (429496729 - q) * 10 + (6 - r) where -num = 10 * q + r
U32ToString(num) ==
    IF num >= 0 THEN ToString(num)
    ELSE LET q == (0 - (num + 6)) \div 10
             r == (0 - (num + 6)) % 10
         IN  IF r = 0 THEN ToString(429496729 - q) \o "0"
             ELSE ToString(429496728 - q) \o ToString(10 - r)

kNames ==
    <<"local", "gibbsq", "gibbmt", "giim", "genbank", "embl", "pir",
      "swissprot", "patent", "other", "general", "gi", "ddbj", "prf", "pdb",
      "tpg", "tpe", "tpd", "gpipe", "named-annot-track">>

TagNameFromNumber(num) ==
    IF num >= 0 /\ num < Len(kNames) THEN kNames[num + 1]
    ELSE "unknown-" \o U32ToString(num)

\* the characters of a decimal number n >= 0
RECURSIVE Decimal(_)
Decimal(n) ==
    IF n < 10 THEN <<48 + n>> ELSE Decimal(n \div 10) \o <<48 + (n % 10)>>

\* std::to_string of an int64_t
I64ToString(val) ==
    IF NearValue(val) >= 0 THEN Decimal(NearValue(val))
    ELSE <<45>> \o Decimal(0 - NearValue(val))

\* a default-constructed SeqId
EmptySeqId == [type |-> "", value |-> <<>>, version |-> None]

\* the loop of ParseTextSeqId; seen holds the states (offset, id) in which the
\* loop has stood: the fields skipped by offset += field_len.length, which is
\* not tested against the buffer, can move the cursor backwards
RECURSIVE ParseTextSeqIdLoop(_, _, _, _, _, _)
ParseTextSeqIdLoop(buf, off, indefinite, end, id, seen) ==
    LET here == <<off, id.value, id.version>>
        Again(o, next_id) ==
            ParseTextSeqIdLoop(buf, o, indefinite, end, next_id,
                               seen \cup {here})
        OnString(str) ==
            IF str.err # "" THEN str
            ELSE Again(str.offset, [id EXCEPT !.value = str.value])
        OnInteger(int) ==
            IF int.err # "" THEN int
            ELSE Again(int.offset, [id EXCEPT !.version = Some(int.value)])
        Stepped(skipped) ==
            IF skipped.err # "" THEN skipped
            ELSE Again(skipped.offset, id)
    IN  IF indefinite /\ IsEoc(buf, off) THEN Ok(off + 2, id)
        ELSE IF ~indefinite /\ ~SzLess(off, end) THEN Ok(off, id)
        ELSE IF here \in seen THEN Throw(Hang, off)
        ELSE The({
            IF tag.err # "" THEN tag
            ELSE The({
                LET explicit ==
                        tag.value.constructed \/ field_len.value.indefinite
                IN  IF field_len.err # "" THEN field_len
                    ELSE IF \/ tag.value.number = 1
                            \/ (tag.value.number = 0 /\ id.value = <<>>)
                    THEN OnString(
                             IF explicit
                             THEN ParseExplicitVisible(buf, field_len.offset,
                                                       field_len.value)
                             ELSE ParseString(buf, field_len.offset,
                                              field_len.value.length))
                    ELSE IF tag.value.number = 3
                    THEN OnInteger(
                             IF explicit
                             THEN ParseExplicitInteger(buf, field_len.offset,
                                                       field_len.value)
                             ELSE ParseInteger(buf, field_len.offset,
                                               field_len.value.length))
                    ELSE Stepped(
                             IF field_len.value.indefinite
                             THEN SkipElement(buf, field_len.offset)
                             ELSE Ok(field_len.offset + field_len.value.length,
                                     <<>>))
                : field_len \in {ReadLength(buf, tag.offset)}})
            : tag \in {ReadTag(buf, off)}})

ParseTextSeqId(buf, off, end_limit) ==
    LET Looped(loop, indefinite) ==
            IF loop.err # "" THEN loop
            ELSE IF indefinite THEN Ok(loop.offset + 2, loop.value)
            ELSE loop
    IN  The({
            LET indefinite == len.value.indefinite
                end == IF indefinite
                       THEN (IF end_limit # None THEN end_limit[1]
                             ELSE Len(buf))
                       ELSE len.offset + len.value.length
            IN  IF len.err # "" THEN len
                ELSE Looped(ParseTextSeqIdLoop(buf, len.offset, indefinite,
                                               end, EmptySeqId, {}),
                            indefinite)
            : len \in {ReadLength(buf, off)}})

\* the loop over the fields of a PDB-seq-id
RECURSIVE ParsePdbLoop(_, _, _, _, _, _)
ParsePdbLoop(buf, off, indefinite, end, id, seen) ==
    LET here == <<off, id.value, id.version>>
        Again(o, next_id) ==
            ParsePdbLoop(buf, o, indefinite, end, next_id, seen \cup {here})
        OnString(str) ==
            IF str.err # "" THEN str
            ELSE Again(str.offset, [id EXCEPT !.value = str.value])
        OnInteger(int) ==
            IF int.err # "" THEN int
            ELSE Again(int.offset, [id EXCEPT !.version = Some(int.value)])
    IN  IF (IF indefinite THEN IsEoc(buf, off) ELSE ~SzLess(off, end))
        THEN Ok(off, id)
        ELSE IF here \in seen THEN Throw(Hang, off)
        ELSE The({
            IF field_tag.err # "" THEN field_tag
            ELSE The({
                IF field_len.err # "" THEN field_len
                ELSE IF field_len.value.indefinite
                THEN Throw("Indefinite length inside PDB-seq-id",
                           field_len.offset)
                ELSE IF /\ field_tag.value.cls = Universal
                        /\ field_tag.value.number = 26
                        /\ id.value = <<>>
                THEN OnString(ParseString(buf, field_len.offset,
                                          field_len.value.length))
                ELSE IF /\ field_tag.value.cls = Universal
                        /\ field_tag.value.number = 2
                        /\ id.version = None
                THEN OnInteger(ParseInteger(buf, field_len.offset,
                                            field_len.value.length))
                ELSE Again(field_len.offset + field_len.value.length, id)
                : field_len \in {ReadLength(buf, field_tag.offset)}})
            : field_tag \in {ReadTag(buf, off)}})

\* std::isalnum(ch) || ch == '_' || ch == '.'
IsIdChar(ch) ==
    \/ (ch >= 48 /\ ch <= 57)
    \/ (ch >= 65 /\ ch <= 90)
    \/ (ch >= 97 /\ ch <= 122)
    \/ ch = 95
    \/ ch = 46

\* the scan for the longest run of identifier characters in
\* [seqid_start, seqid_end), which reads buffer[i] without a test of i
Longer(current, best) == IF Len(current) > Len(best) THEN current ELSE best
RECURSIVE ScanLoop(_, _, _, _, _)
ScanLoop(buf, i, seqid_end, best, current) ==
    IF ~SzLess(i, seqid_end) THEN Ok(seqid_end, Longer(current, best))
    ELSE IF ~Mapped(buf, i) THEN Throw(OutOfBounds, i)
    ELSE IF IsIdChar(ByteAt(buf, i))
    THEN ScanLoop(buf, i + 1, seqid_end, best,
                  Append(current, ByteAt(buf, i)))
    ELSE ScanLoop(buf, i + 1, seqid_end, Longer(current, best), <<>>)

ParseSeqId(buf, off) ==
    LET seqid_start == off
        OnPdb(pdb, indefinite) ==
            IF pdb.err # "" THEN pdb
            ELSE IF indefinite THEN Ok(pdb.offset + 2, pdb.value)
            ELSE pdb
        OnInteger(val) ==
            IF val.err # "" THEN val
            ELSE IF ~Near(val.value) THEN Throw(Unmodelled, val.offset)
            ELSE Ok(val.offset, [EmptySeqId EXCEPT
                                    !.value = I64ToString(val.value)])
        Scanned(best, seqid_end, id) ==
            IF best.err # "" THEN best
            ELSE IF best.value # <<>>
            THEN Ok(seqid_end, [id EXCEPT !.value = best.value])
            ELSE Ok(seqid_end, id)
    IN  The({
            IF tag.err # "" THEN tag
            ELSE IF tag.value.cls # ContextSpecific
            THEN Throw("Seq-id uses unexpected tag class", tag.offset)
            ELSE The({
                LET type == TagNameFromNumber(tag.value.number)
                    seqid_end == parsed.offset
                    id == [parsed.value EXCEPT !.type = type]
                IN  IF parsed.err # "" THEN parsed
                    ELSE IF id.value # <<>> THEN Ok(seqid_end, id)
                    ELSE Scanned(ScanLoop(buf, seqid_start, seqid_end,
                                          <<>>, <<>>),
                                 seqid_end, id)
                \* the three encodings
                : parsed \in {
                    IF tag.value.constructed /\ tag.value.number # 14
                    THEN ParseTextSeqId(buf, tag.offset, None)
                    ELSE The({
                        LET indefinite == len.value.indefinite
                            end == IF indefinite THEN Len(buf)
                                   ELSE len.offset + len.value.length
                        IN  IF len.err # "" THEN len
                            ELSE IF tag.value.constructed
                            THEN OnPdb(ParsePdbLoop(buf, len.offset, indefinite,
                                                    end, EmptySeqId, {}),
                                       indefinite)
                            ELSE IF indefinite
                            THEN Throw(
                                   "Unexpected indefinite length for primitive Seq-id",
                                   len.offset)
                            ELSE OnInteger(ParseInteger(buf, len.offset,
                                                        len.value.length))
                        : len \in {ReadLength(buf, tag.offset)}})}})
            : tag \in {ReadTag(buf, off)}})

\* the loop of ParseSeqIdList; seen as in ParseVisibleLoop
RECURSIVE ParseSeqIdListLoop(_, _, _, _, _, _)
ParseSeqIdListLoop(buf, off, indefinite, end, ids, seen) ==
    IF indefinite /\ IsEoc(buf, off) THEN Ok(off + 2, ids)
    ELSE IF ~indefinite /\ ~SzLess(off, end) THEN Ok(off, ids)
    ELSE IF off \in seen THEN Throw(Hang, off)
    ELSE The({IF id.err # "" THEN id
              ELSE ParseSeqIdListLoop(buf, id.offset, indefinite, end,
                                      Append(ids, id.value), seen \cup {off})
              : id \in {ParseSeqId(buf, off)}})

ParseSeqIdList(buf, off) ==
    The({
        IF tag.err # "" THEN tag
        ELSE IF \/ tag.value.cls # Universal
                \/ tag.value.number # 16
                \/ ~tag.value.constructed
        THEN Throw("Expected SEQUENCE for Seq-id list", tag.offset)
        ELSE The({
            LET indefinite == len.value.indefinite
                end == IF indefinite THEN Len(buf)
                       ELSE len.offset + len.value.length
            IN  IF len.err # "" THEN len
                ELSE ParseSeqIdListLoop(buf, len.offset, indefinite, end,
                                        <<>>, {})
            : len \in {ReadLength(buf, tag.offset)}})
        : tag \in {ReadTag(buf, off)}})

ParseSeqIdField(buf, off) ==
    LET AtEoc(rest, ids) ==
            IF rest.err # "" THEN rest
            ELSE Ok(rest.offset + 2, ids.value)
    IN  The({
            LET start == len.offset
                end == start + len.value.length
            IN  IF len.err # "" THEN len
                ELSE The({
                    IF ids.err # "" THEN ids
                    ELSE IF len.value.indefinite
                    THEN AtEoc(SkipToEoc(buf, ids.offset, FALSE, 0, {}), ids)
                    ELSE IF SzLess(ids.offset, end) THEN Ok(end, ids.value)
                    ELSE ids
                    : ids \in {ParseSeqIdList(buf, start)}})
            : len \in {ReadLength(buf, off)}})

-----------------------------------------------------------------------------
(* legacy_header_reader.cpp: DecodeDeflineSet.                             *)

\* a default-constructed BlastDefLine
EmptyDefLine == [title |-> <<>>, seqids |-> <<>>, taxid |-> None]

\* the loop over the fields of one definition line.  A result with err set
\* carries in value the entry as it stood when the exception left the loop.
RECURSIVE DefLineLoop(_, _, _, _, _, _)
DefLineLoop(buf, off, def_indef, def_end, entry, seen) ==
    LET here == <<off, entry>>
        Raised(r) == [err |-> r.err, offset |-> r.offset, value |-> entry]
        Again(o, next_entry) ==
            DefLineLoop(buf, o, def_indef, def_end, next_entry,
                        seen \cup {here})
        Stepped(skipped) ==
            IF skipped.err # "" THEN Raised(skipped)
            ELSE Again(skipped.offset, entry)
        OnTitle(title) ==
            IF title.err # "" THEN Raised(title)
            ELSE Again(title.offset, [entry EXCEPT !.title = title.value])
        OnSeqids(seqids) ==
            IF seqids.err # "" THEN Raised(seqids)
            ELSE Again(seqids.offset, [entry EXCEPT !.seqids = seqids.value])
        OnTaxid(taxid) ==
            IF taxid.err # "" THEN Raised(taxid)
            ELSE Again(taxid.offset,
                       [entry EXCEPT !.taxid = Some(taxid.value)])
    IN  IF def_indef /\ IsEoc(buf, off) THEN Ok(off + 2, entry)
        ELSE IF ~def_indef /\ ~SzLess(off, def_end) THEN Ok(off, entry)
        ELSE IF here \in seen THEN Raised(Throw(Hang, off))
        ELSE The({
            IF field_tag.err # "" THEN Raised(field_tag)
            ELSE IF field_tag.value.cls # ContextSpecific
            THEN Stepped(SkipElement(buf, field_tag.offset))
            ELSE IF field_tag.value.number \in {0, 2}
            THEN The({
                LET explicit ==
                        field_tag.value.constructed \/ len.value.indefinite
                IN  IF len.err # "" THEN Raised(len)
                    ELSE IF field_tag.value.number = 0
                    THEN OnTitle(
                             IF explicit
                             THEN ParseExplicitVisible(buf, len.offset,
                                                       len.value)
                             ELSE ParseString(buf, len.offset,
                                              len.value.length))
                    ELSE OnTaxid(
                             IF explicit
                             THEN ParseExplicitInteger(buf, len.offset,
                                                       len.value)
                             ELSE ParseInteger(buf, len.offset,
                                               len.value.length))
                : len \in {ReadLength(buf, field_tag.offset)}})
            ELSE IF field_tag.value.number = 1
            THEN OnSeqids(ParseSeqIdField(buf, field_tag.offset))
            ELSE Stepped(SkipElement(buf, field_tag.offset))
            : field_tag \in {ReadTag(buf, off)}})

\* what DecodeDeflineSet leaves behind: err as for every call, the vector it
\* returns, and *error_out
Decoded(deflines, error_out) ==
    [err |-> "", deflines |-> deflines, error_out |-> error_out]
NotDecoded(err) == [err |-> err, deflines |-> <<>>, error_out |-> ""]

\* the test of the inner catch block on the entry of the failing line
Populated(entry) ==
    entry.title # <<>> \/ entry.seqids # <<>> \/ entry.taxid # None

\* the loop over the definition lines, with its two catch blocks; seen as in
\* ParseVisibleLoop
RECURSIVE DefLineSetLoop(_, _, _, _, _, _)
DefLineSetLoop(buf, off, outer_indef, outer_end, deflines, seen) ==
    LET def_start == off
        \* catch (const std::exception &ex) of the outer try block
        OuterCatch(r) ==
            IF IsStdException(r.err) THEN Decoded(deflines, r.err)
            ELSE NotDecoded(r.err)
        Again(o, next_deflines) ==
            DefLineSetLoop(buf, o, outer_indef, outer_end, next_deflines,
                           seen \cup {off})
        Stepped(skipped) ==
            IF skipped.err # "" THEN OuterCatch(skipped)
            ELSE Again(skipped.offset, deflines)
        OnLine(line) ==
            IF line.err = ""
            THEN Again(line.offset, Append(deflines, line.value))
            \* catch (const std::exception &ex) of the inner try block: break
            ELSE IF IsStdException(line.err)
            THEN Decoded(IF Populated(line.value)
                         THEN Append(deflines, line.value) ELSE deflines,
                         line.err)
            ELSE NotDecoded(line.err)
    IN  IF outer_indef /\ IsEoc(buf, off) THEN Decoded(deflines, "")
        ELSE IF ~outer_indef /\ ~SzLess(off, outer_end)
        THEN Decoded(deflines, "")
        ELSE IF off \in seen THEN NotDecoded(Hang)
        ELSE The({
            IF def_tag.err # "" THEN OuterCatch(def_tag)
            ELSE IF \/ def_tag.value.cls # Universal
                    \/ def_tag.value.number # 16
                    \/ ~def_tag.value.constructed
            THEN Stepped(SkipElement(buf, def_start))
            ELSE The({
                LET def_indef == def_len.value.indefinite
                    def_end == IF def_indef THEN Len(buf)
                               ELSE def_len.offset + def_len.value.length
                IN  IF def_len.err # "" THEN OuterCatch(def_len)
                    ELSE OnLine(DefLineLoop(buf, def_len.offset, def_indef,
                                            def_end, EmptyDefLine, {}))
                : def_len \in {ReadLength(buf, def_tag.offset)}})
            : def_tag \in {ReadTag(buf, off)}})

DecodeDeflineSet(blob) ==
    The({
        IF outer_tag.err # "" THEN NotDecoded(outer_tag.err)
        ELSE IF outer_tag.value.cls # Universal \/ outer_tag.value.number # 16
        THEN NotDecoded("Expected Blast-def-line-set sequence")
        ELSE The({
            LET outer_indef == outer_len.value.indefinite
                outer_end == IF outer_indef THEN Len(blob)
                             ELSE outer_len.offset + outer_len.value.length
            IN  IF outer_len.err # "" THEN NotDecoded(outer_len.err)
                ELSE DefLineSetLoop(blob, outer_len.offset, outer_indef,
                                    outer_end, <<>>, {})
            : outer_len \in {ReadLength(blob, outer_tag.offset)}})
        : outer_tag \in {ReadTag(blob, 0)}})

-----------------------------------------------------------------------------
(* The files the programs are run on.                                      *)

\* the four bytes of a big-endian word v < 256, and a length-prefixed string
Word(v) == <<0, 0, 0, v>>
Pascal(str) == Word(Len(str)) \o str

RECURSIVE Words(_)
Words(table) == IF table = <<>> THEN <<>> ELSE Word(Head(table)) \o Words(Tail(table))

\* total_residues = 1 as the index file stores it
TotalResiduesOne == <<1, 0, 0, 0, 0, 0, 0, 0>>

\* an index file in the layout ParsePinFile reads, with the given tables
IndexFile(version, flag, num, header_tab, seq_tab, amb_tab) ==
    Word(version) \o Word(flag)
    \o (IF version = 5 THEN Word(0) ELSE <<>>)
    \o Pascal(<<97>>)
    \o (IF version = 5 THEN Pascal(<<>>) ELSE <<>>)
    \o Pascal(<<98>>)
    \o Word(num) \o TotalResiduesOne \o Word(1)
    \o Words(header_tab) \o Words(seq_tab) \o Words(amb_tab)

\* the table 0, 1, .., n of n + 1 entries, and the constant table
Ramp(n) == [i \in 1..(n + 1) |-> i - 1]
Flat(n, v) == [i \in 1..(n + 1) |-> v]

Tables(num) == SeqsOfLen(0..MaxOffset, num + 1)

\* complete files: every header table with one sequence table, and every
\* sequence table with one header table; nucleotide files carry a third table
CompleteIndexFiles ==
    UNION {
        {IndexFile(version, flag, num, t, Ramp(num),
                   IF flag = 1 THEN <<>> ELSE Flat(num, 3)) : t \in Tables(num)}
        \cup
        {IndexFile(version, flag, num, Ramp(num), t,
                   IF flag = 1 THEN <<>> ELSE Ramp(num)) : t \in Tables(num)}
        : version \in {4, 5}, flag \in {0, 1}, num \in 0..MaxOids }

\* one file per version, type and record count, the rejected version 3 included
CanonicalIndexFiles ==
    {IndexFile(version, flag, num, Ramp(num), Ramp(num),
               IF flag = 1 THEN <<>> ELSE Ramp(num))
        : version \in {3, 4, 5}, flag \in {0, 1}, num \in 0..MaxOids}

\* every prefix of a canonical file (a truncated index), and one trailing byte
TruncatedIndexFiles ==
    UNION {{SubSeq(f, 1, n) : n \in 0..Len(f)} : f \in CanonicalIndexFiles}
TrailingIndexFiles == {f \o <<0>> : f \in CanonicalIndexFiles}

\* record counts that do not fit 31 bits or are one below: 0xFFFFFFFF,
\* 0xFFFFFFFE, 0x80000000 and 0x7FFFFFFF
WideCounts ==
    {<<255, 255, 255, 255>>, <<255, 255, 255, 254>>, <<128, 0, 0, 0>>,
     <<127, 255, 255, 255>>}

\* protein index files that declare such a count, followed by a few words
WideIndexFile(version, count, table) ==
    Word(version) \o Word(1)
    \o (IF version = 5 THEN Word(0) ELSE <<>>)
    \o Pascal(<<97>>)
    \o (IF version = 5 THEN Pascal(<<>>) ELSE <<>>)
    \o Pascal(<<98>>)
    \o count \o TotalResiduesOne \o Word(1) \o Words(table)
WideTables == SeqsUpTo(0..MaxOffset, MaxOids + 1)
WideIndexFiles ==
    {WideIndexFile(version, count, table)
        : version \in {4, 5}, count \in WideCounts, table \in WideTables}

IndexFiles ==
    CompleteIndexFiles \cup TruncatedIndexFiles \cup TrailingIndexFiles
    \cup WideIndexFiles

\* header files: every byte string of two distinguishable bytes
PhrFiles == SeqsUpTo({48, 128}, MaxPhrLen)

-----------------------------------------------------------------------------
(* The header blobs DecodeDeflineSet is run on.                            *)

\* a BER element of definite length below 128
Element(tag, body) == <<tag, Len(body)>> \o body

\* fields of a definition line: the title "a" as a primitive [0], the title
\* "b" as a VisibleString inside an explicit [0], the taxid 5 as an INTEGER
\* inside an explicit [2], and the list of the one seq-id gi 7 inside [1]
TitleA == Element(128, <<97>>)
TitleB == Element(160, Element(26, <<98>>))
TaxidFive == Element(162, Element(2, <<5>>))
GiSeven == Element(161, Element(48, Element(139, <<7>>)))
\* a primitive [2] of length 0, at which ParseInteger throws
TaxidEmpty == Element(130, <<>>)
\* an explicit [0] holding a SEQUENCE of indefinite length that is not closed
TitleOpen == Element(160, <<48, 128>>)
\* a seq-id whose only field declares three bytes more than the blob holds
SeqIdOverrun == Element(161, Element(48, Element(164, <<130, 3>>)))

\* definition lines that decode, with the entry each decodes to
WellFormedLines ==
    {[bytes |-> Element(48, TitleA),
      entry |-> [title |-> <<97>>, seqids |-> <<>>, taxid |-> None]],
     [bytes |-> Element(48, TitleB \o TaxidFive),
      entry |-> [title |-> <<98>>, seqids |-> <<>>,
                 taxid |-> Some(<<0, 0, 0, 0, 0, 0, 0, 5>>)]],
     [bytes |-> Element(48, GiSeven),
      entry |-> [title |-> <<>>,
                 seqids |-> <<[type |-> "gi", value |-> <<55>>,
                               version |-> None]>>,
                 taxid |-> None]]}

\* definition lines in which a field throws, before and after a field that
\* decodes
FailingLines == {Element(48, TaxidEmpty), Element(48, TitleA \o TaxidEmpty)}

DefLines ==
    {line.bytes : line \in WellFormedLines} \cup FailingLines
    \cup {Element(48, TitleOpen), Element(48, SeqIdOverrun)}

RECURSIVE Concat(_)
Concat(strs) == IF strs = <<>> THEN <<>> ELSE Head(strs) \o Concat(Tail(strs))

\* a Blast-def-line-set of the given lines
DefLineSet(lines) == Element(48, Concat(lines))

\* the blobs: every short string of the bytes of an end-of-contents marker,
\* a SEQUENCE tag and an indefinite length (which is also the tag of a
\* primitive [0]), and the sets of the lines above
BlobBytes == {0, 48, 128}
Blobs ==
    SeqsUpTo(BlobBytes, MaxBlobLen)
    \cup {DefLineSet(lines) : lines \in SeqsUpTo(DefLines, MaxLines)}

\* the blob of the record that follows
GoodBlob == DefLineSet(<<Element(48, TitleA)>>)

\* the memory around a blob's buffer: nothing readable behind it, or three
\* bytes
HeapImages ==
    {[before |-> 0, after |-> <<>>], [before |-> 0, after |-> <<65, 66, 67>>]}

-----------------------------------------------------------------------------
(* The two programs on an index file: legacy_header_reader's main() calls  *)
(* ParsePinFile and ExtractHeaders, psq_reader's main() calls ParsePin.    *)

\* no primitive called yet
NoCall == [op |-> "none", cursor |-> "none", before |-> 0, err |-> "", value |-> 0]

\* PrintSummary not entered
SummaryIdle ==
    /\ heap = [before |-> 0, after |-> <<>>]
    /\ oid = 0
    /\ summary = <<>>

\* the cursor harness at rest
HarnessIdle ==
    /\ buffer = <<>>
    /\ offset = 0
    /\ m_Pos = 0
    /\ call = NoCall

NoResult == [err |-> "not run"]

InitPin ==
    /\ HarnessIdle
    /\ SummaryIdle
    /\ pin_data \in IndexFiles
    /\ index = NoResult
    /\ headers = NoResult
    /\ psq_index = NoResult
    /\ \/ hdr_pc = "start" /\ psq_pc = "idle" /\ phr_data \in PhrFiles
       \/ hdr_pc = "idle" /\ psq_pc = "start" /\ phr_data = <<>>

\* main(): const PinIndex index = ParsePinFile(pin_path), an exception ends
\* the program with exit code 2
RunParsePinFile ==
    /\ hdr_pc = "start"
    /\ index' = ParsePinFile(pin_data)
    /\ hdr_pc' = IF index'.err = "" THEN "parsed" ELSE "exit2"
    /\ UNCHANGED <<buffer, offset, m_Pos, call, pin_data, phr_data, headers,
                   psq_pc, psq_index, heap, oid, summary>>

\* main(): const auto headers = ExtractHeaders(index, phr_path)
RunExtractHeaders ==
    /\ hdr_pc = "parsed"
    /\ headers' = ExtractHeaders(index.index, phr_data)
    /\ hdr_pc' = IF headers'.err = "" THEN "extracted" ELSE "exit2"
    /\ UNCHANGED <<buffer, offset, m_Pos, call, pin_data, phr_data, index,
                   psq_pc, psq_index, heap, oid, summary>>

\* what a read outside m_Data can end in: the process is killed, or the loop
\* runs on over whatever it reads until push_back throws std::bad_alloc
UndefinedOutcomes == {"Crash", "BadAlloc"}

\* main(): const PinIndex index = ParsePin(pin_path), an exception ends the
\* program with exit code 1
RunParsePin ==
    /\ psq_pc = "start"
    /\ LET r == ParsePin(pin_data)
       IN  IF r.err = "UndefinedBehaviour"
           THEN \E outcome \in UndefinedOutcomes : psq_index' = ParsePinThrow(outcome)
           ELSE psq_index' = r
    /\ psq_pc' = IF psq_index'.err = "" THEN "parsed" ELSE "exit1"
    /\ UNCHANGED <<buffer, offset, m_Pos, call, pin_data, phr_data, hdr_pc,
                   index, headers, heap, oid, summary>>

NextPin == RunParsePinFile \/ RunExtractHeaders \/ RunParsePin

SpecPin == InitPin /\ [][NextPin]_vars

-----------------------------------------------------------------------------
(* legacy_header_reader's main() on a protein database of two records: the *)
(* header of the first is any of Blobs, the header of the second GoodBlob. *)

InitBlob ==
    /\ HarnessIdle
    /\ heap \in HeapImages
    /\ oid = 0
    /\ summary = <<>>
    /\ \E blob \in Blobs :
          /\ phr_data = blob \o GoodBlob
          /\ pin_data = IndexFile(4, 1, 2,
                                  <<0, Len(blob), Len(blob) + Len(GoodBlob)>>,
                                  Ramp(2), <<>>)
    /\ hdr_pc = "start"
    /\ psq_pc = "idle"
    /\ index = NoResult
    /\ headers = NoResult
    /\ psq_index = NoResult

\* PrintSummary: one pass of the loop over the headers.  An exception that
\* DecodeDeflineSet lets through leaves PrintSummary and ends main() with exit
\* code 2; a call that does not come back leaves the program inside it.
PrintSummaryStep ==
    /\ hdr_pc = "extracted"
    /\ oid < Len(headers.value)
    /\ LET decoded == DecodeDeflineSet(headers.value[oid + 1])
       IN  IF decoded.err = ""
           THEN /\ summary' = Append(summary,
                                     [deflines |-> decoded.deflines,
                                      decode_error |-> decoded.error_out])
                /\ oid' = oid + 1
                /\ hdr_pc' = hdr_pc
           ELSE /\ UNCHANGED <<summary, oid>>
                /\ hdr_pc' = IF IsStdException(decoded.err) THEN "exit2"
                             ELSE IF decoded.err = Hang THEN "decoding"
                             ELSE IF decoded.err \in {Crash, OutOfBounds}
                             THEN "killed"
                             ELSE "unmodelled"
    /\ UNCHANGED <<buffer, offset, m_Pos, call, pin_data, phr_data, index,
                   headers, psq_pc, psq_index, heap>>

\* PrintSummary returns after the last header, main() returns 0
PrintSummaryReturn ==
    /\ hdr_pc = "extracted"
    /\ oid = Len(headers.value)
    /\ hdr_pc' = "exit0"
    /\ UNCHANGED <<buffer, offset, m_Pos, call, pin_data, phr_data, index,
                   headers, psq_pc, psq_index, heap, oid, summary>>

\* one more pass of the loop DecodeDeflineSet does not leave
DecodeSpin ==
    /\ hdr_pc = "decoding"
    /\ UNCHANGED vars

NextBlob ==
    \/ RunParsePinFile
    \/ RunExtractHeaders
    \/ PrintSummaryStep
    \/ PrintSummaryReturn
    \/ DecodeSpin

SpecBlob == InitBlob /\ [][NextBlob]_vars

-----------------------------------------------------------------------------
(* The cursor harness: the read primitives of both files applied, one call *)
(* after another, to a byte string.  A throwing call ends the run, as an   *)
(* exception ends either program.                                          *)

CursorBytes == {0, 1}

InitCursor ==
    /\ buffer \in SeqsUpTo(CursorBytes, MaxBufLen)
    /\ offset = 0
    /\ m_Pos = 0
    /\ call = NoCall
    /\ pin_data = <<>>
    /\ phr_data = <<>>
    /\ hdr_pc = "idle"
    /\ psq_pc = "idle"
    /\ index = NoResult
    /\ headers = NoResult
    /\ psq_index = NoResult
    /\ SummaryIdle

\* no call has thrown
CanCall == call.err = ""

UnchangedPrograms ==
    UNCHANGED <<pin_data, phr_data, hdr_pc, index, headers, psq_pc, psq_index,
                heap, oid, summary>>

\* a call of a legacy_header_reader primitive on (buffer, offset)
LegacyCall(op, r) ==
    /\ CanCall
    /\ call' = [op |-> op, cursor |-> "offset", before |-> offset,
                err |-> r.err, value |-> r.value]
    /\ offset' = r.offset
    /\ UNCHANGED <<buffer, m_Pos>>
    /\ UnchangedPrograms

\* a call of a BinaryCursor method on (buffer, m_Pos)
CursorCall(op, r) ==
    /\ CanCall
    /\ call' = [op |-> op, cursor |-> "m_Pos", before |-> m_Pos,
                err |-> r.err, value |-> r.value]
    /\ m_Pos' = r.m_Pos
    /\ UNCHANGED <<buffer, offset>>
    /\ UnchangedPrograms

CallReadBE32 == LegacyCall("ReadBE32", ReadBE32(buffer, offset))
CallReadLE64 == LegacyCall("ReadLE64", ReadLE64(buffer, offset))
CallReadPascalString == LegacyCall("ReadPascalString", ReadPascalString(buffer, offset))
CallReadUInt32 == CursorCall("ReadUInt32", ReadUInt32(buffer, m_Pos))
CallReadUInt64 == CursorCall("ReadUInt64", ReadUInt64(buffer, m_Pos))
CallReadString == CursorCall("ReadString", ReadString(buffer, m_Pos))

NextCursor ==
    \/ CallReadBE32
    \/ CallReadLE64
    \/ CallReadPascalString
    \/ CallReadUInt32
    \/ CallReadUInt64
    \/ CallReadString

SpecCursor == InitCursor /\ [][NextCursor]_vars

-----------------------------------------------------------------------------
(* DecodeSequence applied to a sequence file: the call psq_reader's main() *)
(* makes for every record, with the two offsets of the record.             *)

\* residue codes: the terminator, the ends of the table, codes beyond it
ResidueCodes == {0, 1, 27, 28, 255}

\* the uint32_t offsets of a record, 0xFFFFFFFF among them
SequenceOffsets == 0..(MaxSeqLen + 1) \cup {-1}

InitSeq ==
    /\ buffer \in SeqsUpTo(ResidueCodes, MaxSeqLen)
    /\ offset = 0
    /\ m_Pos = 0
    /\ call = NoCall
    /\ pin_data = <<>>
    /\ phr_data = <<>>
    /\ hdr_pc = "idle"
    /\ psq_pc = "idle"
    /\ index = NoResult
    /\ headers = NoResult
    /\ psq_index = NoResult
    /\ SummaryIdle

CallDecodeSequence ==
    /\ call.op = "none"
    /\ \E start \in SequenceOffsets, end \in SequenceOffsets :
          LET r == DecodeSequence(buffer, start, end)
          IN  call' = [op |-> "DecodeSequence", start |-> start, end |-> end,
                       err |-> r.err, value |-> r.value]
    /\ UNCHANGED <<buffer, offset, m_Pos>>
    /\ UnchangedPrograms

NextSeq == CallDecodeSequence

SpecSeq == InitSeq /\ [][NextSeq]_vars

-----------------------------------------------------------------------------
(* The functions of the header-blob decoder applied, one call after        *)
(* another, to encoded elements.  A throwing call ends the run.            *)

\* a primitive context-specific seq-id: the tag of local [0] or gi [11], the
\* length and the body
IntegerBytes == {0, 18, 52, 128, 255}
GiExample == <<139, 4, 0, 0, 18, 52>>
IntegerSeqIds ==
    {<<tag, Len(body)>> \o body :
        tag \in {128, 139}, body \in SeqsUpTo(IntegerBytes, MaxIntLen)}
    \cup {GiExample}

\* elements for SkipElement: short and long lengths, an indefinite container,
\* and WrapBack, an element whose length of eight bytes is 2^64 - 10, the
\* size of its own header, alone and as the child of an indefinite container
WrapBack == <<4, 136, 255, 255, 255, 255, 255, 255, 255, 246>>
SkipInputs ==
    {<<4, 0>>, <<4, 1, 65>>, <<4, 129, 1, 65>>, <<4, 130, 0, 1, 65>>,
     <<4, 2, 65>>, <<4, 128>>, <<4, 137, 0, 0, 0, 0, 0, 0, 0, 0, 0>>,
     <<36, 128, 4, 1, 65, 0, 0>>, <<36, 128, 36, 128, 0, 0, 0, 0, 4, 0>>,
     WrapBack, <<36, 128>> \o WrapBack \o <<0, 0>>}
    \cup SeqsUpTo(BlobBytes, MaxSkipLen)

\* constructed strings for ParseVisible: the children are primitive strings
\* (payload a, b, c) and an INTEGER, which is not a string; definite and
\* indefinite length
StringChildren ==
    {[bytes |-> <<26, 1, 97>>, payload |-> <<97>>],
     [bytes |-> <<26, 1, 98>>, payload |-> <<98>>],
     [bytes |-> <<26, 1, 99>>, payload |-> <<99>>]}
OtherChildren == {[bytes |-> <<2, 1, 5>>, payload |-> <<>>]}
Children == StringChildren \cup OtherChildren
ChildBytes(kids) == Concat([k \in 1..Len(kids) |-> kids[k].bytes])
Payloads(kids) == Concat([k \in 1..Len(kids) |-> kids[k].payload])
ConstructedString(kids, indefinite) ==
    IF indefinite THEN <<58, 128>> \o ChildBytes(kids) \o <<0, 0>>
    ELSE Element(58, ChildBytes(kids))
ChildLists == SeqsUpTo(Children, MaxChunks)
VisibleInputs ==
    {ConstructedString(kids, indefinite) :
        kids \in ChildLists, indefinite \in BOOLEAN}

\* explicit wrappers for ParseExplicitVisible ([0]) and ParseExplicitInteger
\* ([2]): an inner element, the elements after it inside the wrapper, and
\* the bytes that follow the wrapper in the enclosing container
WrappedStrings ==
    {<<26, 1, 97>>, <<58, 128, 26, 1, 97, 0, 0>>, <<2, 1, 5>>,
     <<48, 3, 26, 1, 97>>}
WrappedIntegers == {<<2, 1, 5>>, <<2, 2, 1, 0>>}
Trailing == {<<>>, <<4, 1, 7>>, <<5, 0>>}
Enclosing == {<<>>, <<0, 0>>, <<0, 0, 0, 0>>, <<162, 3, 2, 1, 9>>}
WrapperForms == {"definite", "short", "indefinite"}
Wrapper(tag, inner, rest, form) ==
    IF form = "indefinite" THEN <<tag, 128>> \o inner \o rest \o <<0, 0>>
    ELSE IF form = "short" THEN <<tag, Len(inner) - 1>> \o inner \o rest
    ELSE Element(tag, inner \o rest)
ExplicitInputs ==
    {Wrapper(160, inner, rest, form) \o after :
        inner \in WrappedStrings, rest \in Trailing, form \in WrapperForms,
        after \in Enclosing}
    \cup {Wrapper(162, inner, rest, form) \o after :
        inner \in WrappedIntegers, rest \in Trailing, form \in WrapperForms,
        after \in Enclosing}

\* constructed seq-ids for ParseTextSeqId: the fields [0], [1], [3] and
\* fields of other numbers, of definite and of indefinite length
ValueFields ==
    {[kind |-> 0, bytes |-> <<128, 1, 97>>, payload |-> <<97>>],
     [kind |-> 0, bytes |-> <<160, 3, 26, 1, 99>>, payload |-> <<99>>],
     [kind |-> 1, bytes |-> <<129, 1, 98>>, payload |-> <<98>>]}
VersionFields == {[kind |-> 3, bytes |-> <<131, 1, 5>>, payload |-> 5]}
DefiniteFields ==
    {[kind |-> 2, bytes |-> <<130, 1, 122>>, payload |-> <<>>],
     [kind |-> 5, bytes |-> <<165, 3, 129, 1, 120>>, payload |-> <<>>]}
IndefiniteFields ==
    {[kind |-> 2, bytes |-> <<162, 128, 4, 1, 7, 129, 1, 120, 0, 0>>,
      payload |-> <<>>],
     [kind |-> 5, bytes |-> <<165, 128, 26, 1, 122, 0, 0>>, payload |-> <<>>]}
TextFields ==
    ValueFields \cup VersionFields \cup DefiniteFields \cup IndefiniteFields
\* at most one field of each of the numbers 0, 1 and 3
FieldLists(fields) ==
    {fs \in SeqsUpTo(fields, MaxFields) :
        \A i, j \in 1..Len(fs) :
            (i # j /\ fs[i].kind = fs[j].kind) => fs[i].kind \in {2, 5}}
TextSeqId(tag, fs, indefinite) ==
    IF indefinite THEN <<tag, 128>> \o ChildBytes(fs) \o <<0, 0>>
    ELSE Element(tag, ChildBytes(fs))
TextSeqIds ==
    {TextSeqId(164, fs, indefinite) :
        fs \in FieldLists(TextFields), indefinite \in BOOLEAN}

\* pdb seq-ids ([14], constructed): strings (universal 26), integers
\* (universal 2) and an element that is neither, standing in the body of the
\* seq-id itself or in a SEQUENCE (universal 16) that is the body
PdbFields ==
    {[kind |-> 26, bytes |-> <<26, 4, 50, 72, 66, 83>>,
      payload |-> <<50, 72, 66, 83>>],
     [kind |-> 26, bytes |-> <<26, 1, 97>>, payload |-> <<97>>],
     [kind |-> 2, bytes |-> <<2, 1, 5>>, payload |-> 5],
     [kind |-> 2, bytes |-> <<2, 1, 7>>, payload |-> 7],
     [kind |-> 4, bytes |-> <<4, 1, 9>>, payload |-> <<>>]}
PdbFieldLists == SeqsUpTo(PdbFields, MaxFields)
PdbForms == {"fields", "indefinite", "sequence"}
PdbSeqId(fs, form) ==
    IF form = "indefinite" THEN <<174, 128>> \o ChildBytes(fs) \o <<0, 0>>
    ELSE IF form = "sequence" THEN Element(174, Element(48, ChildBytes(fs)))
    ELSE Element(174, ChildBytes(fs))
PdbExample ==
    PdbSeqId(<<[kind |-> 26, bytes |-> <<26, 4, 50, 72, 66, 83>>,
                payload |-> <<50, 72, 66, 83>>],
               [kind |-> 2, bytes |-> <<2, 1, 5>>, payload |-> 5]>>,
             "sequence")
PdbSeqIds == {PdbSeqId(fs, form) : fs \in PdbFieldLists, form \in PdbForms}

\* fields of a definition line that are not its title, seq-id list or
\* taxid: universal elements, and context-specific ones of other numbers
UnknownFields ==
    {<<4, 1, 65>>, <<5, 0>>, <<48, 3, 2, 1, 5>>, <<131, 1, 65>>,
     <<165, 3, 2, 1, 5>>, <<165, 128, 2, 1, 5, 0, 0>>}
FieldsBefore == {<<>>, TitleA}
FieldsAfter == {<<>>, TaxidFive, GiSeven, GiSeven \o TaxidFive}
LinesWithUnknown ==
    {Element(48, before \o unknown \o after) :
        before \in FieldsBefore, unknown \in UnknownFields,
        after \in FieldsAfter}
    \cup {Element(48, before \o after) :
        before \in FieldsBefore, after \in FieldsAfter}

\* blobs of one definition line
OneLineBlobs == {DefLineSet(<<line>>) : line \in DefLines \cup LinesWithUnknown}

BerBuffers ==
    IntegerSeqIds \cup SkipInputs \cup VisibleInputs \cup ExplicitInputs
    \cup TextSeqIds \cup PdbSeqIds \cup OneLineBlobs

InitBer ==
    /\ buffer \in BerBuffers
    /\ heap \in HeapImages
    /\ offset = 0
    /\ m_Pos = 0
    /\ call = NoCall
    /\ pin_data = <<>>
    /\ phr_data = <<>>
    /\ hdr_pc = "idle"
    /\ psq_pc = "idle"
    /\ index = NoResult
    /\ headers = NoResult
    /\ psq_index = NoResult
    /\ oid = 0
    /\ summary = <<>>

CallParseSeqId == LegacyCall("ParseSeqId", ParseSeqId(buffer, offset))
CallSkipElement == LegacyCall("SkipElement", SkipElement(buffer, offset))
CallParseVisible == LegacyCall("ParseVisible", ParseVisible(buffer, offset))
\* DecodeDeflineSet has a cursor of its own, which starts at 0
DecodeCall(r) ==
    /\ CanCall
    /\ call.op = "none"
    /\ call' = [op |-> "DecodeDeflineSet", cursor |-> "none", before |-> 0,
                err |-> r.err,
                value |-> [deflines |-> r.deflines, error_out |-> r.error_out]]
    /\ UNCHANGED <<buffer, offset, m_Pos>>
    /\ UnchangedPrograms
CallDecodeDeflineSet == DecodeCall(DecodeDeflineSet(buffer))

\* a def-line field of the given number read as DecodeDeflineSet reads it:
\* the tag, the length, and the explicit parser when the field is constructed
\* or of indefinite length; the call keeps the length it was given
ExplicitCall(op, number, r, len) ==
    /\ CanCall
    /\ call' = [op |-> op, cursor |-> "offset", before |-> len.offset,
                err |-> r.err, value |-> r.value, len |-> len.value]
    /\ offset' = r.offset
    /\ UNCHANGED <<buffer, m_Pos>>
    /\ UnchangedPrograms
ExplicitField(tag, len, number) ==
    /\ tag.err = ""
    /\ tag.value.cls = ContextSpecific
    /\ tag.value.number = number
    /\ len.err = ""
    /\ tag.value.constructed \/ len.value.indefinite
CallParseExplicitVisible ==
    \E field_tag \in {ReadTag(buffer, offset)} :
        \E len \in {ReadLength(buffer, field_tag.offset)} :
            /\ ExplicitField(field_tag, len, 0)
            /\ ExplicitCall("ParseExplicitVisible", 0,
                   ParseExplicitVisible(buffer, len.offset, len.value), len)
CallParseExplicitInteger ==
    \E field_tag \in {ReadTag(buffer, offset)} :
        \E len \in {ReadLength(buffer, field_tag.offset)} :
            /\ ExplicitField(field_tag, len, 2)
            /\ ExplicitCall("ParseExplicitInteger", 2,
                   ParseExplicitInteger(buffer, len.offset, len.value), len)

NextBer ==
    \/ CallParseSeqId
    \/ CallSkipElement
    \/ CallParseVisible
    \/ CallParseExplicitVisible
    \/ CallParseExplicitInteger
    \/ CallDecodeDeflineSet

SpecBer == InitBer /\ [][NextBer]_vars

-----------------------------------------------------------------------------
(* The claims.                                                             *)

\* ParsePinFile has run, ParsePin has run
RanParsePinFile == index # NoResult
RanParsePin == psq_index # NoResult

\* the big-endian word at position pos of the index file
WordAt(pos) ==
    Signed8(At(pin_data, pos)) * 16777216 + At(pin_data, pos + 1) * 65536
    + At(pin_data, pos + 2) * 256 + At(pin_data, pos + 3)

\* PrintSummary has had the blob of the first record decoded
FirstDecoded == hdr_pc \in {"extracted", "exit0"} /\ oid >= 1

\* C1: DecodeDeflineSet terminates on every header blob, it returns or
\* raises after finitely many steps: the program is never inside a call of
\* DecodeDeflineSet that does not come back.
C1_DecodeTerminates == hdr_pc # "decoding"

\* C2: when a definition line raises and a well-formed line follows it in the
\* set, decoding continues with that line, which appears in the returned
\* list.
C2_ContinuesAfterFailure ==
    \A bad \in FailingLines, good \in WellFormedLines :
        (FirstDecoded /\ headers.value[1] = DefLineSet(<<bad, good.bytes>>))
            => \E j \in 1..Len(summary[1].deflines) :
                   summary[1].deflines[j] = good.entry

\* C3: DecodeDeflineSet never propagates an error to its caller: main() does
\* not end with exit code 2 once ExtractHeaders has returned the headers, and
\* when it ends every record has been reported.
C3_NoPropagation ==
    /\ ~(hdr_pc = "exit2" /\ headers.err = "")
    /\ hdr_pc = "exit0" => Len(summary) = Len(headers.value)

\* C4: an index file of at least four bytes whose first big-endian word is
\* neither 4 nor 5 makes ParsePinFile and ParsePin fail with the
\* unsupported-version error, and with no other error.
C4_UnsupportedVersion ==
    (Len(pin_data) >= 4 /\ WordAt(0) \notin {4, 5}) =>
        /\ RanParsePinFile => index.err = "UnsupportedVersion"
        /\ RanParsePin => psq_index.err = "UnsupportedVersion"

\* C5: a cursor read primitive that fails leaves the cursor position where it
\* was before the call.
C5_FailedReadKeepsCursor ==
    (call.op # "none" /\ call.err # "") =>
        IF call.cursor = "offset" THEN offset = call.before ELSE m_Pos = call.before

\* C6: both index parsers decode the eight total_residues bytes
\* 01 00 00 00 00 00 00 00 (every generated index file stores these) to 1.
C6_TotalResiduesReversed ==
    /\ (RanParsePinFile /\ index.err = "") => index.index.total_length = U64Of(1)
    /\ (RanParsePin /\ psq_index.err = "") => psq_index.index.total_residues = U64Of(1)

\* where the offset tables of a parsed index start: after version, type,
\* volume number (version 5), title, lmdb name (version 5), date, num_oids,
\* total length and max length
TablesStart(idx) ==
    4 + 4 + (IF idx.version = 5 THEN 4 ELSE 0)
    + 4 + Len(idx.title)
    + (IF idx.version = 5 THEN 4 + Len(idx.lmdb_file) ELSE 0)
    + 4 + Len(idx.date)
    + 4 + 8 + 4

\* table holds the n big-endian words that start at position base
IsWordsAt(table, base, n) ==
    /\ Len(table) = n
    /\ \A k \in 1..n : table[k] = WordAt(base + 4 * (k - 1))

\* C7: after a successful ParsePinFile, header_offsets and sequence_offsets
\* hold num_records + 1 entries each, the consecutive big-endian words after
\* max_length in that order; ambiguity_offsets holds the next num_records + 1
\* words when the index is not protein and is empty when it is.
C7_OffsetTables ==
    (RanParsePinFile /\ index.err = "") =>
        LET idx == index.index
            n == idx.num_oids + 1
            base == TablesStart(idx)
        IN  /\ IsWordsAt(idx.header_offsets, base, n)
            /\ IsWordsAt(idx.sequence_offsets, base + 4 * n, n)
            /\ IF idx.is_protein
               THEN idx.ambiguity_offsets = <<>>
               ELSE IsWordsAt(idx.ambiguity_offsets, base + 8 * n, n)

\* C7 happens: a nucleotide index of at least one record was parsed, with
\* three tables that differ from one another
C7_Witness ==
    /\ RanParsePinFile /\ index.err = ""
    /\ index.index.num_oids >= 1
    /\ ~index.index.is_protein
    /\ index.index.header_offsets # index.index.sequence_offsets
    /\ index.index.sequence_offsets # index.index.ambiguity_offsets

\* complete protein index files that declare no record
ZeroRecordFiles ==
    {IndexFile(version, 1, 0, <<h>>, <<q>>, <<>>)
        : version \in {4, 5}, h \in 0..MaxOffset, q \in 0..MaxOffset}

\* C8: a complete index file with num_records = 0 decodes successfully in
\* both index parsers, to offset tables of length 1, and yields no record.
C8_ZeroRecords ==
    pin_data \in ZeroRecordFiles =>
        /\ RanParsePinFile =>
              /\ index.err = ""
              /\ Len(index.index.header_offsets) = 1
              /\ Len(index.index.sequence_offsets) = 1
        /\ headers # NoResult => headers.err = "" /\ headers.value = <<>>
        /\ RanParsePin =>
              /\ psq_index.err = ""
              /\ Len(psq_index.index.sequence_offsets) = 1

\* complete index files of at least one record in which the first entry of
\* the header table or of the sequence table is not below its last entry
BadTableFiles ==
    UNION {
        {IndexFile(version, flag, num, t, Ramp(num),
                   IF flag = 1 THEN <<>> ELSE Flat(num, 3))
            : t \in {u \in Tables(num) : u[1] >= u[num + 1]}}
        \cup
        {IndexFile(version, flag, num, Ramp(num), t,
                   IF flag = 1 THEN <<>> ELSE Ramp(num))
            : t \in {u \in Tables(num) : u[1] >= u[num + 1]}}
        : version \in {4, 5}, flag \in {0, 1}, num \in 1..MaxOids }

\* C9: when num_records > 0 and the first entry of the header or sequence
\* offset table is not strictly less than its last entry, ParsePinFile and
\* ParsePin fail with the corrupt-index error and return no index.
C9_CorruptTables ==
    pin_data \in BadTableFiles =>
        /\ RanParsePinFile => index.err = "CorruptIndex" /\ index.index = NoIndex
        /\ RanParsePin => psq_index.err = "CorruptIndex" /\ psq_index.index = NoIndex

\* the header-file bytes of [from, to)
PhrBytes(from, to) == [k \in 1..(to - from) |-> phr_data[from + k]]

\* C10: ExtractHeaders yields, for every record i in file order, the header
\* file bytes of [header_offsets[i], header_offsets[i+1]); it fails with the
\* corrupt-index error when a range is inverted or ends past the file; and
\* it reads no byte outside the header file.
C10_ExtractHeaders ==
    headers # NoResult =>
        LET idx == index.index
            inverted == \E i \in 1..idx.num_oids :
                           idx.header_offsets[i + 1] < idx.header_offsets[i]
            past == \E i \in 1..idx.num_oids :
                       idx.header_offsets[i + 1] > Len(phr_data)
        IN  /\ headers.err \in {"", "CorruptIndex"}
            /\ (inverted \/ past) => headers.err = "CorruptIndex"
            /\ headers.err = "" =>
                  /\ Len(headers.value) = idx.num_oids
                  /\ \A i \in 1..idx.num_oids :
                        headers.value[i] =
                            PhrBytes(idx.header_offsets[i], idx.header_offsets[i + 1])
            /\ headers.reads \subseteq 0..(Len(phr_data) - 1)

\* C10 happens: two records with non-empty, different header blobs were cut
C10_Witness ==
    /\ headers # NoResult /\ headers.err = ""
    /\ Len(headers.value) >= 2
    /\ headers.value[1] # <<>>
    /\ headers.value[2] # <<>>
    /\ headers.value[1] # headers.value[2]

\* C11: DecodeSequence fails when start > end or end is beyond the file, and
\* otherwise returns, for the bytes of [start, end) up to the first 0, the
\* table character of every code below 28 and '?' for every other code: the
\* result is never longer than end - start and holds nothing for the 0.
C11_DecodeSequence ==
    call.op = "DecodeSequence" =>
        LET start == call.start
            end == call.end
            n == Len(call.value)
        IN  IF start < 0 \/ end < 0 \/ start > end \/ end > Len(buffer)
            THEN call.err # ""
            ELSE /\ call.err = ""
                 /\ n <= end - start
                 /\ \A k \in 1..n :
                        /\ buffer[start + k] # 0
                        /\ call.value[k] =
                               IF buffer[start + k] >= 28 THEN 63
                               ELSE kNcbistdaaToAscii[buffer[start + k] + 1]
                 /\ n = end - start \/ buffer[start + n + 1] = 0

\* a sequence cut short by a terminator, with a code beyond the table
C11_Witness ==
    /\ call.op = "DecodeSequence"
    /\ call.err = ""
    /\ call.value = <<65, 63>>
    /\ call.end - call.start = 3

\* the integer a decimal string stands for
RECURSIVE FromDigits(_)
FromDigits(str) ==
    IF str = <<>> THEN 0
    ELSE FromDigits(SubSeq(str, 1, Len(str) - 1)) * 10 + (str[Len(str)] - 48)
FromDecimal(str) ==
    IF str # <<>> /\ str[1] = 45 THEN 0 - FromDigits(Tail(str))
    ELSE FromDigits(str)

\* the big-endian two's complement integer of a body of one to four bytes
RECURSIVE Magnitude(_)
Magnitude(body) ==
    IF body = <<>> THEN 0
    ELSE Magnitude(SubSeq(body, 1, Len(body) - 1)) * 256 + body[Len(body)]
RECURSIVE Pow256(_)
Pow256(n) == IF n = 0 THEN 1 ELSE 256 * Pow256(n - 1)
TwosComplement(body) ==
    Signed8(body[1]) * Pow256(Len(body) - 1) + Magnitude(Tail(body))

\* ParseSeqId has been called on the element at the start of the buffer
SeqIdParsed == call.op = "ParseSeqId" /\ call.before = 0

C13_SkipAdvances ==
    call.op = "SkipElement" =>
        IF call.err = "" THEN SzLess(call.before, offset)
        ELSE IsPinParseError(call.err)

\* C14: ParseVisible called on a constructed string returns the payloads of
\* its primitive string children joined in their order, whatever other
\* children stand between them, and leaves the cursor behind the element.
C14_ConstructedString ==
    \A kids \in ChildLists, indefinite \in BOOLEAN :
        (/\ call.op = "ParseVisible"
         /\ call.before = 0
         /\ buffer = ConstructedString(kids, indefinite))
        => /\ call.err = ""
           /\ call.value = Payloads(kids)
           /\ offset = Len(buffer)

\* C14, for the constructed strings all of whose children are primitive
\* strings
C14_StringChildrenOnly ==
    \A kids \in SeqsUpTo(StringChildren, MaxChunks), indefinite \in BOOLEAN :
        (/\ call.op = "ParseVisible"
         /\ call.before = 0
         /\ buffer = ConstructedString(kids, indefinite))
        => /\ call.err = ""
           /\ call.value = Payloads(kids)
           /\ offset = Len(buffer)

ExplicitReturned ==
    /\ call.op \in {"ParseExplicitVisible", "ParseExplicitInteger"}
    /\ call.err = ""

\* C15: when ParseExplicitVisible or ParseExplicitInteger returns, the cursor
\* is at the end of the wrapper: at body start + length for a wrapper of
\* definite length, and for a wrapper of indefinite length right behind the
\* wrapper's own end-of-contents marker, the bytes of the enclosing container
\* untouched.
C15_CursorAtWrapperEnd ==
    /\ (ExplicitReturned /\ ~call.len.indefinite)
        => offset = call.before + call.len.length
    /\ \A tag \in {160, 162}, inner \in WrappedStrings \cup WrappedIntegers,
          rest \in Trailing, after \in Enclosing :
            (/\ ExplicitReturned
             /\ call.before = 2
             /\ buffer = Wrapper(tag, inner, rest, "indefinite") \o after)
            => offset = Len(buffer) - Len(after)

\* C15, wrappers of definite length: the cursor is not left before the end
\* of the wrapper
C15_NotBeforeWrapperEnd ==
    (ExplicitReturned /\ ~call.len.indefinite)
    => ~SzLess(offset, call.before + call.len.length)

\* the payload of the field of the given number, if there is one
FieldOf(fs, kind) ==
    IF \E k \in 1..Len(fs) : fs[k].kind = kind
    THEN Some(fs[CHOOSE k \in 1..Len(fs) : fs[k].kind = kind].payload)
    ELSE None
TextSeqIdDecoded(fs) ==
    /\ call.err = ""
    /\ call.value.type = "genbank"
    /\ FieldOf(fs, 1) # None => Some(call.value.value) = FieldOf(fs, 1)
    /\ (FieldOf(fs, 1) = None /\ FieldOf(fs, 0) # None)
        => Some(call.value.value) = FieldOf(fs, 0)
    /\ IF FieldOf(fs, 3) = None THEN call.value.version = None
       ELSE /\ call.value.version # None
            /\ Near(call.value.version[1])
            /\ Some(NearValue(call.value.version[1])) = FieldOf(fs, 3)

\* C16: a constructed context-specific seq-id other than [14] has the value
\* of its field [1] if there is one, whatever the order of the fields, and
\* of its field [0] otherwise, and the version of its field [3]; the fields
\* of other numbers, of definite or indefinite length, change nothing.
C16_TextSeqId ==
    \A fs \in FieldLists(TextFields), indefinite \in BOOLEAN :
        (SeqIdParsed /\ buffer = TextSeqId(164, fs, indefinite))
        => TextSeqIdDecoded(fs)

\* C16, for the seq-ids whose fields of other numbers have definite length
\* and that have a field [0] or [1] or are of definite length themselves
C16_DefiniteFields ==
    \A fs \in FieldLists(TextFields \ IndefiniteFields),
       indefinite \in BOOLEAN :
        (/\ SeqIdParsed
         /\ buffer = TextSeqId(164, fs, indefinite)
         /\ indefinite => (FieldOf(fs, 0) # None \/ FieldOf(fs, 1) # None))
        => TextSeqIdDecoded(fs)

\* the payload of the first field of the given number, if there is one
FirstOf(fs, kind) ==
    IF \E k \in 1..Len(fs) : fs[k].kind = kind
    THEN Some(fs[CHOOSE k \in 1..Len(fs) :
                    /\ fs[k].kind = kind
                    /\ \A j \in 1..(k - 1) : fs[j].kind # kind].payload)
    ELSE None
PdbDecoded(fs) ==
    /\ call.err = ""
    /\ call.value.type = "pdb"
    /\ FirstOf(fs, 26) # None => Some(call.value.value) = FirstOf(fs, 26)
    /\ IF FirstOf(fs, 2) = None THEN call.value.version = None
       ELSE /\ call.value.version # None
            /\ Near(call.value.version[1])
            /\ Some(NearValue(call.value.version[1])) = FirstOf(fs, 2)

\* C17: a seq-id [14] whose body is a SEQUENCE has type pdb, the first
\* string of the SEQUENCE as its value and the first integer of the SEQUENCE
\* as its version; the string 2HBS with the integer 5 gives 2HBS and 5.
C17_PdbSeqId ==
    /\ \A fs \in PdbFieldLists :
          (SeqIdParsed /\ buffer = PdbSeqId(fs, "sequence")) => PdbDecoded(fs)
    /\ (SeqIdParsed /\ buffer = PdbExample)
       => /\ call.value.value = <<50, 72, 66, 83>>
          /\ call.value.version # None
          /\ NearValue(call.value.version[1]) = 5

\* C17, for the strings and integers that stand in the body of the seq-id
\* itself, not in a SEQUENCE
C17_FieldsInBody ==
    \A fs \in PdbFieldLists, form \in {"fields", "indefinite"} :
        (SeqIdParsed /\ buffer = PdbSeqId(fs, form)) => PdbDecoded(fs)

\* the runs of identifier characters of a byte string, and the longest
Runs(raw) ==
    {SubSeq(raw, i, j) : i \in 1..Len(raw), j \in 1..Len(raw)}
    \ {run \in {SubSeq(raw, i, j) : i \in 1..Len(raw), j \in 1..Len(raw)} :
          run = <<>> \/ \E k \in 1..Len(run) : ~IsIdChar(run[k])}
IsLongestRun(v, raw) ==
    IF Runs(raw) = {} THEN v = <<>>
    ELSE v \in Runs(raw) /\ \A run \in Runs(raw) : Len(run) <= Len(v)
\* the bytes of the seq-id element, from its tag to the cursor
SeqIdBytes ==
    SubSeq(buffer, call.before + 1,
           IF offset > Len(buffer) THEN Len(buffer) ELSE offset)
\* the value is what the scan of the element gives
ValueFromScan == call.err = "" /\ IsLongestRun(call.value.value, SeqIdBytes)
\* the value is what the fields give
ValueFromField(v) == call.err = "" /\ Some(call.value.value) = v

\* seq-ids whose fields give no value: a pdb seq-id whose body is a SEQUENCE
\* or has no string, and a seq-id of fields without [0] and [1]
NoValueScanned(indefinites) ==
    /\ \A fs \in PdbFieldLists, form \in PdbForms :
          (/\ SeqIdParsed
           /\ buffer = PdbSeqId(fs, form)
           /\ form = "sequence" \/ FirstOf(fs, 26) = None)
          => ValueFromScan
    /\ \A fs \in FieldLists(VersionFields \cup DefiniteFields),
          indefinite \in indefinites :
          (SeqIdParsed /\ buffer = TextSeqId(164, fs, indefinite))
          => ValueFromScan
\* seq-ids whose fields give a value, with longer runs in their bytes
ValueKept ==
    /\ \A fs \in PdbFieldLists, form \in {"fields", "indefinite"} :
          (/\ SeqIdParsed
           /\ buffer = PdbSeqId(fs, form)
           /\ FirstOf(fs, 26) # None)
          => ValueFromField(FirstOf(fs, 26))
    /\ \A fs \in FieldLists(TextFields \ IndefiniteFields),
          indefinite \in BOOLEAN :
          (/\ SeqIdParsed
           /\ buffer = TextSeqId(164, fs, indefinite)
           /\ FieldOf(fs, 1) # None)
          => ValueFromField(FieldOf(fs, 1))

\* C18: when the fields of a seq-id give no value, ParseSeqId returns as
\* value the longest run of the characters A-Z, a-z, 0-9, _ and . in the
\* bytes of the element, from its tag to the cursor after decoding, and the
\* empty string only when there is no such character; a value that the
\* fields give is kept.
C18_RawScan == NoValueScanned(BOOLEAN) /\ ValueKept

\* C18, for the seq-ids of fields that have definite length
C18_DefiniteSeqIds == NoValueScanned({FALSE}) /\ ValueKept

\* C19: DecodeDeflineSet reads no byte outside the blob, whatever lengths
\* the fields of a seq-id declare: the process is not killed by such a read.
C19_ReadsInsideBlob ==
    call.op = "DecodeDeflineSet" => call.err # OutOfBounds

\* what DecodeDeflineSet gives for a blob
DeflinesOf(r) == [deflines |-> r.deflines, error_out |-> r.error_out]

\* C20: a field of a definition line that is not context-specific, or is
\* context-specific with a number other than 0, 1 and 2, is skipped as one
\* element: the line decodes as it does without the field, the fields before
\* and after it keeping their values.
C20_UnknownFieldSkipped ==
    \A before \in FieldsBefore, unknown \in UnknownFields,
       after \in FieldsAfter :
        (/\ call.op = "DecodeDeflineSet"
         /\ buffer = DefLineSet(<<Element(48, before \o unknown \o after)>>))
        => /\ call.err = ""
           /\ call.value.error_out = ""
           /\ call.value = DeflinesOf(DecodeDeflineSet(
                  DefLineSet(<<Element(48, before \o after)>>)))

\* the record count of the index file ParsePin has read up to max_length,
\* as an integer: the word before total_residues and max_length
NumSequences(idx) ==
    LET pos == TablesStart([version |-> idx.version, title |-> idx.title,
                            lmdb_file |-> idx.lmdb_name,
                            date |-> idx.creation_date]) - 16
    IN  At(pin_data, pos) * 16777216 + At(pin_data, pos + 1) * 65536
        + At(pin_data, pos + 2) * 256 + At(pin_data, pos + 3)

\* C21: for every value of num_sequences, 0xFFFFFFFF included, ParsePin
\* fails with the error of incomplete offset tables or reads exactly
\* num_sequences + 1 sequence offsets, each from inside the index file, and
\* its loop ends: it reads no byte outside the file, and the table it
\* returns holds the num_sequences + 1 words behind the header table.
C21_NoWraparound ==
    RanParsePin =>
        /\ psq_index.err \notin UndefinedOutcomes
        /\ psq_index.err = "" =>
              LET idx == psq_index.index
                  n == NumSequences(idx) + 1
                  base == TablesStart([version |-> idx.version,
                                       title |-> idx.title,
                                       lmdb_file |-> idx.lmdb_name,
                                       date |-> idx.creation_date])
              IN  IsWordsAt(idx.sequence_offsets, base + 4 * n, n)

\* C21, for the index files whose num_sequences is not 0xFFFFFFFF
C21_BelowMaximum ==
    (/\ RanParsePin
     /\ pin_data \notin {WideIndexFile(version, <<255, 255, 255, 255>>, table)
                            : version \in {4, 5}, table \in WideTables})
    => C21_NoWraparound

====
